---- MODULE Spec2Model ----
(***************************************************************************)
(* Fin-AI backend: the fundamentals extraction pipeline of BrowserAgent    *)
(* (src/backend/src/browser_agent.py).                                     *)
(*                                                                         *)
(* Texts are sequences of one-character strings, so that trimming,         *)
(* replacing, suffix tests, substring tests, splitting and the two regular *)
(* expressions of _parse_financial_value are computed character by         *)
(* character.  A Python float is the pair (m, e) meaning m * 10^e, kept in *)
(* normal form (m not divisible by 10, or m = 0 and e = 0): decimal        *)
(* arithmetic is exact here, binary rounding of float is not modelled.     *)
(***************************************************************************)
EXTENDS Integers, Sequences, FiniteSets, TLC

VARIABLES
    text,          \* argument of the _parse_financial_value call under study
    value,         \* what that call returned
    parse_pc       \* "call" | "return"

parse_vars == <<text, value, parse_pc>>

VARIABLES
    pc,                    \* where _extract_fundamentals is
    metric_idx,            \* position of the outer loop in metrics_to_extract
    selector_idx,          \* position in the selector list being tried
    fundamentals,          \* the dict fundamentals
    queried,               \* the selector queries made for one metric, in order
    shown,                 \* how many elements / rows the page has produced
    after_selectors,       \* fundamentals as the selector loops left it
    warned,                \* metrics named by "Could not extract"
    missing_metrics,       \* the list missing_metrics
    scanned,               \* whether the loop over all_rows was entered
    page_rows,             \* the table rows of the page
    range_queried,         \* the texts read by the range selectors, in order
    fifty_two_week_range,  \* the local fifty_two_week_range
    result                 \* the FundamentalMetrics returned

vars ==
    <<pc, metric_idx, selector_idx, fundamentals, queried, shown,
      after_selectors, warned, missing_metrics, scanned, page_rows,
      range_queried, fifty_two_week_range, result>>

VARIABLES
    news_pc,               \* where _extract_news is
    news_selector_idx,     \* position in article_selectors
    articles,              \* len(articles)
    additional_articles,   \* len(additional_articles)
    article_idx,           \* position of the loop over the articles
    news_items,            \* the list news_items
    first_pass_items,      \* len(news_items) as the first pass left it
    news_result            \* what _extract_news returned

news_vars ==
    <<news_pc, news_selector_idx, articles, additional_articles, article_idx,
      news_items, first_pass_items, news_result>>

VARIABLES
    fb_text,               \* argument of the _parse_sentiment_fallback call
    fb_result,             \* what that call returned
    fb_pc                  \* "call" | "return"

fallback_vars == <<fb_text, fb_result, fb_pc>>

VARIABLES
    sent_pc,               \* where analyze_sentiment is
    extracted_text,        \* the local extracted_text
    response,              \* what the LLM call gave
    sentiment_data,        \* the local sentiment_data
    sentiment_record       \* the RedditSentiment returned, None if none

sentiment_vars ==
    <<sent_pc, extracted_text, response, sentiment_data, sentiment_record>>

VARIABLES
    info_pc,               \* where _extract_basic_info is
    page_price,            \* what the page gives for the price element
    page_change,           \* what the page gives for the change element
    page_change_percent,   \* what the page gives for the change-percent element
    page_title,            \* what the page gives for the h1 element
    current_price,         \* the local current_price
    change,                \* the local change
    change_percent,        \* the local change_percent
    company_name,          \* the local company_name
    basic_info             \* the dict _extract_basic_info returned

info_vars ==
    <<info_pc, page_price, page_change, page_change_percent, page_title,
      current_price, change, change_percent, company_name, basic_info>>

VARIABLES
    entry_point,           \* the entry point that runs
    tickers,               \* how many tickers the run was given
    include_news,          \* include_news as extract_stock_data receives it
    include_reddit,        \* include_reddit as extract_stock_data receives it
    run_pc,                \* where the run is
    ticker_idx,            \* position of the loop over the tickers
    agent,                 \* the attributes of the BrowserAgent
    analyzer,              \* the attributes of its RedditSentimentAnalyzer
    updates,               \* the status updates yielded so far
    navigated,             \* the pages loaded so far and the session of each
    nav_failed,            \* the pages whose goto raised
    logged,                \* the pages whose failure reached the log
    stock_data,            \* the StockData of the ticker at hand
    stocks_data,           \* the StockData kept for the tickers done
    run_result,            \* what the run gave its caller
    close_calls            \* calls of BrowserAgent.close that have returned

run_vars ==
    <<entry_point, tickers, include_news, include_reddit, run_pc, ticker_idx,
      agent, analyzer, updates, navigated, nav_failed, logged, stock_data,
      stocks_data, run_result, close_calls>>

\* __init__ of BrowserAgent and of RedditSentimentAnalyzer: nothing launched;
\* launched counts the browsers launched, abandoned the open browsers whose
\* reference a later launch overwrote
Constructed ==
    [playwright |-> "absent", browser |-> "none", page |-> "none",
     initialized |-> FALSE, launched |-> 0, abandoned |-> 0]

VARIABLES
    req_kind,              \* the endpoint of each request in flight
    req_pc,                \* where the handler of each request is
    req_read,              \* the request whose quote page each request read
    srv_agent,             \* the attributes of analysis_service.browser_agent
    srv_analyzer,          \* the attributes of its RedditSentimentAnalyzer
    page_ticker,           \* the request whose ticker the agent's page shows
    interference           \* uses of the agent's page during another scrape

server_vars ==
    <<req_kind, req_pc, req_read, srv_agent, srv_analyzer, page_ticker,
      interference>>

VARIABLES
    flow,                  \* the workflow that handles the StockData records
    flow_pc,               \* where the workflow is
    flow_tickers,          \* how many tickers it was given
    flow_idx,              \* position of the loop at hand
    sd,                    \* the StockData of the ticker at hand
    sd_constructed,        \* the records as extract_stock_data returned them
    sd_kept,               \* the list stocks_data
    sd_written             \* the fields assigned after construction

data_vars ==
    <<flow, flow_pc, flow_tickers, flow_idx, sd, sd_constructed, sd_kept,
      sd_written>>

VARIABLES
    val_input,             \* the StockData calculate_valuation_metrics is given
    val_metrics,           \* the dict it returned
    val_raised,            \* whether its except clause was reached
    val_pc                 \* "call" | "return"

valuation_vars == <<val_input, val_metrics, val_raised, val_pc>>

VARIABLES
    simple_pc,             \* where analyze_stock_simple is
    simple_query,          \* request.query
    simple_failure,        \* what went wrong in the request
    simple_pending,        \* the exception on its way out of the try block
    http_status,           \* the status of the response, 0 before it
    simple_agent,          \* the attributes of the shared BrowserAgent
    simple_analyzer,       \* the attributes of its RedditSentimentAnalyzer
    close_attempted        \* whether close was called

simple_vars ==
    <<simple_pc, simple_query, simple_failure, simple_pending, http_status,
      simple_agent, simple_analyzer, close_attempted>>

VARIABLES
    tk_query,              \* the query extract_ticker is given
    tk_response,           \* what ollama.chat gave
    tk_result,             \* what extract_ticker returned
    tk_pc                  \* "call" | "return"

ticker_vars == <<tk_query, tk_response, tk_result, tk_pc>>

VARIABLES
    mon_pc,                \* where monitor_stocks is
    mon_tickers,           \* its argument tickers
    alert_thresholds,      \* its argument alert_thresholds
    mon_idx,               \* the position of the for loop in tickers
    mon_agent,             \* the attributes of self.browser_agent
    mon_extracted,         \* what extract_stock_data did for each ticker so far
    alerts,                \* the local list alerts
    monitoring_data,       \* the local dict monitoring_data
    mon_result,            \* the dict returned
    mon_close_calls        \* the calls of browser_agent.close

monitor_vars ==
    <<mon_pc, mon_tickers, alert_thresholds, mon_idx, mon_agent,
      mon_extracted, alerts, monitoring_data, mon_result, mon_close_calls>>

\* the variables other than those of one function
outside_parse == <<vars, news_vars, fallback_vars, sentiment_vars, info_vars, run_vars, server_vars, data_vars, valuation_vars, simple_vars, ticker_vars, monitor_vars>>

outside_fundamentals == <<parse_vars, news_vars, fallback_vars, sentiment_vars, info_vars, run_vars, server_vars, data_vars, valuation_vars, simple_vars, ticker_vars, monitor_vars>>

outside_news == <<parse_vars, vars, fallback_vars, sentiment_vars, info_vars, run_vars, server_vars, data_vars, valuation_vars, simple_vars, ticker_vars, monitor_vars>>

outside_fallback == <<parse_vars, vars, news_vars, sentiment_vars, info_vars, run_vars, server_vars, data_vars, valuation_vars, simple_vars, ticker_vars, monitor_vars>>

outside_sentiment == <<parse_vars, vars, news_vars, fallback_vars, info_vars, run_vars, server_vars, data_vars, valuation_vars, simple_vars, ticker_vars, monitor_vars>>

outside_info == <<parse_vars, vars, news_vars, fallback_vars, sentiment_vars, run_vars, server_vars, data_vars, valuation_vars, simple_vars, ticker_vars, monitor_vars>>

outside_run == <<parse_vars, vars, news_vars, fallback_vars, sentiment_vars, info_vars, server_vars, data_vars, valuation_vars, simple_vars, ticker_vars, monitor_vars>>

outside_server == <<parse_vars, vars, news_vars, fallback_vars, sentiment_vars, info_vars, run_vars, data_vars, valuation_vars, simple_vars, ticker_vars, monitor_vars>>

outside_data == <<parse_vars, vars, news_vars, fallback_vars, sentiment_vars, info_vars, run_vars, server_vars, valuation_vars, simple_vars, ticker_vars, monitor_vars>>

outside_valuation == <<parse_vars, vars, news_vars, fallback_vars, sentiment_vars, info_vars, run_vars, server_vars, data_vars, simple_vars, ticker_vars, monitor_vars>>

outside_simple == <<parse_vars, vars, news_vars, fallback_vars, sentiment_vars, info_vars, run_vars, server_vars, data_vars, valuation_vars, ticker_vars, monitor_vars>>

outside_ticker == <<parse_vars, vars, news_vars, fallback_vars, sentiment_vars, info_vars, run_vars, server_vars, data_vars, valuation_vars, simple_vars, monitor_vars>>

outside_monitor == <<parse_vars, vars, news_vars, fallback_vars, sentiment_vars, info_vars, run_vars, server_vars, data_vars, valuation_vars, simple_vars, ticker_vars>>

all_vars == <<parse_vars, vars, news_vars, fallback_vars, sentiment_vars, info_vars, run_vars, server_vars, data_vars, valuation_vars, simple_vars, ticker_vars, monitor_vars>>

-----------------------------------------------------------------------------
(* Bounds of the model *)

MaxLen == 3        \* longest free-form input text of the normalizer
MaxPre == 2        \* longest text in front of a parenthesized group
MaxInner == 3      \* longest text between "(" and "%)"
MaxElements == 2   \* elements and table rows one page answers queries with
MaxArticles == 6   \* articles one query of the news page can return
MaxWords == 4      \* words of a text handed to the keyword fallback
MaxTickers == 2    \* tickers of one request
MaxQuote == 2      \* largest price and range bound handed to the valuation

-----------------------------------------------------------------------------
(* Python values *)

None == [tag |-> "none"]

Float(m, e) == [tag |-> "float", m |-> m, e |-> e]

Str(s) == [tag |-> "str", s |-> s]

RECURSIVE Normal(_, _)
Normal(m, e) ==
    IF m = 0 THEN Float(0, 0)
    ELSE IF m % 10 = 0 THEN Normal(m \div 10, e + 1)
    ELSE Float(m, e)

\* truthiness of an Optional[float]: None and 0.0 are falsy
Truthy(v) == v.tag = "float" /\ v.m # 0

-----------------------------------------------------------------------------
(* Functions that are not running *)

ParseIdle ==
    /\ text = <<>>
    /\ value = None
    /\ parse_pc = "idle"

FundIdle ==
    /\ pc = "idle"
    /\ metric_idx = 1
    /\ selector_idx = 1
    /\ fundamentals = [k \in {} |-> None]
    /\ queried = <<>>
    /\ shown = 0
    /\ after_selectors = [k \in {} |-> None]
    /\ warned = {}
    /\ missing_metrics = <<>>
    /\ scanned = FALSE
    /\ page_rows = <<>>
    /\ range_queried = <<>>
    /\ fifty_two_week_range = None
    /\ result = None

NewsIdle ==
    /\ news_pc = "idle"
    /\ news_selector_idx = 1
    /\ articles = 0
    /\ additional_articles = 0
    /\ article_idx = 1
    /\ news_items = <<>>
    /\ first_pass_items = 0
    /\ news_result = None

FallbackIdle ==
    /\ fb_text = <<>>
    /\ fb_result = None
    /\ fb_pc = "idle"

SentimentIdle ==
    /\ sent_pc = "idle"
    /\ extracted_text = None
    /\ response = None
    /\ sentiment_data = None
    /\ sentiment_record = None

InfoIdle ==
    /\ info_pc = "idle"
    /\ page_price = None
    /\ page_change = None
    /\ page_change_percent = None
    /\ page_title = None
    /\ current_price = None
    /\ change = None
    /\ change_percent = None
    /\ company_name = None
    /\ basic_info = None

RunIdle ==
    /\ entry_point = "none"
    /\ tickers = 0
    /\ include_news = FALSE
    /\ include_reddit = FALSE
    /\ run_pc = "idle"
    /\ ticker_idx = 1
    /\ agent = Constructed
    /\ analyzer = Constructed
    /\ updates = <<>>
    /\ navigated = <<>>
    /\ nav_failed = {}
    /\ logged = {}
    /\ stock_data = [k \in {} |-> 0]
    /\ stocks_data = <<>>
    /\ run_result = "none"
    /\ close_calls = 0

ServerIdle ==
    /\ req_kind = <<>>
    /\ req_pc = <<>>
    /\ req_read = <<>>
    /\ srv_agent = Constructed
    /\ srv_analyzer = Constructed
    /\ page_ticker = 0
    /\ interference = {}

DataIdle ==
    /\ flow = "none"
    /\ flow_pc = "idle"
    /\ flow_tickers = 0
    /\ flow_idx = 1
    /\ sd = [k \in {} |-> 0]
    /\ sd_constructed = <<>>
    /\ sd_kept = <<>>
    /\ sd_written = {}

ValuationIdle ==
    /\ val_input = None
    /\ val_metrics = None
    /\ val_raised = FALSE
    /\ val_pc = "idle"

SimpleIdle ==
    /\ simple_pc = "idle"
    /\ simple_query = <<>>
    /\ simple_failure = "none"
    /\ simple_pending = "none"
    /\ http_status = 0
    /\ simple_agent = Constructed
    /\ simple_analyzer = Constructed
    /\ close_attempted = FALSE

TickerIdle ==
    /\ tk_query = <<>>
    /\ tk_response = None
    /\ tk_result = None
    /\ tk_pc = "idle"

MonitorIdle ==
    /\ mon_pc = "idle"
    /\ mon_tickers = <<>>
    /\ alert_thresholds = "idle"
    /\ mon_idx = 0
    /\ mon_agent = Constructed
    /\ mon_extracted = <<>>
    /\ alerts = <<>>
    /\ monitoring_data = "idle"
    /\ mon_result = "idle"
    /\ mon_close_calls = 0

\* every function but the running one is idle
OthersIdle(running) ==
    /\ running = "parse" \/ ParseIdle
    /\ running = "fundamentals" \/ FundIdle
    /\ running = "news" \/ NewsIdle
    /\ running = "fallback" \/ FallbackIdle
    /\ running = "sentiment" \/ SentimentIdle
    /\ running = "info" \/ InfoIdle
    /\ running = "run" \/ RunIdle
    /\ running = "server" \/ ServerIdle
    /\ running = "data" \/ DataIdle
    /\ running = "valuation" \/ ValuationIdle
    /\ running = "simple" \/ SimpleIdle
    /\ running = "ticker" \/ TickerIdle
    /\ running = "monitor" \/ MonitorIdle

-----------------------------------------------------------------------------
(* str methods *)

Whitespace == {" "}

Digits == {"0", "1", "2", "3", "4", "5", "6", "7", "8", "9"}

DigitVal(c) ==
    CASE c = "0" -> 0 [] c = "1" -> 1 [] c = "2" -> 2 [] c = "3" -> 3
      [] c = "4" -> 4 [] c = "5" -> 5 [] c = "6" -> 6 [] c = "7" -> 7
      [] c = "8" -> 8 [] c = "9" -> 9

SetMin(S) == CHOOSE x \in S : \A y \in S : x <= y

SetMax(S) == CHOOSE x \in S : \A y \in S : x >= y

\* str.strip()
Strip(s) ==
    LET keep == {i \in 1..Len(s) : s[i] \notin Whitespace}
    IN  IF keep = {} THEN <<>> ELSE SubSeq(s, SetMin(keep), SetMax(keep))

\* str.replace(c, "")
Remove(s, c) == SelectSeq(s, LAMBDA x : x # c)

\* c in s, for a single character c
HasChar(s, c) == \E i \in 1..Len(s) : s[i] = c

\* sub in s
Contains(s, sub) ==
    \E i \in 0..(Len(s) - Len(sub)) : SubSeq(s, i + 1, i + Len(sub)) = sub

\* s.endswith(c), for a single character c
EndsWith(s, c) == Len(s) > 0 /\ s[Len(s)] = c

\* s[:-1]
DropLast(s) == SubSeq(s, 1, Len(s) - 1)

-----------------------------------------------------------------------------
(* re and float *)

\* the position after the longest run of digits of s that starts at i
DigitsEnd(s, i) ==
    SetMin({j \in i..(Len(s) + 1) : j = Len(s) + 1 \/ s[j] \notin Digits})

RECURSIVE DigitsToInt(_)
DigitsToInt(ds) ==
    IF ds = <<>> THEN 0
    ELSE 10 * DigitsToInt(DropLast(ds)) + DigitVal(ds[Len(ds)])

\* the match of [0-9]+\.?[0-9]* anchored at i (s[i] is a digit):
\* [whole, frac, stop], stop being the position after the match
NumberAt(s, i) ==
    LET a == DigitsEnd(s, i)
        dot == a <= Len(s) /\ s[a] = "."
        b == IF dot THEN DigitsEnd(s, a + 1) ELSE a
    IN  [whole |-> SubSeq(s, i, a - 1),
         frac  |-> IF dot THEN SubSeq(s, a + 1, b - 1) ELSE <<>>,
         stop  |-> b]

\* float(match.group(1))
FloatOf(n) == Normal(DigitsToInt(n.whole \o n.frac), 0 - Len(n.frac))

\* re.search(r"\(([0-9]+\.?[0-9]*)\%\)", s): the leftmost match, or None
PercentStarts(s) ==
    {i \in 1..Len(s) :
        /\ s[i] = "("
        /\ i + 1 <= Len(s) /\ s[i + 1] \in Digits
        /\ LET n == NumberAt(s, i + 1)
           IN  /\ n.stop + 1 <= Len(s)
               /\ s[n.stop] = "%"
               /\ s[n.stop + 1] = ")"}

percent_match(s) ==
    IF PercentStarts(s) = {} THEN None
    ELSE FloatOf(NumberAt(s, SetMin(PercentStarts(s)) + 1))

\* re.search(r"([0-9]+\.?[0-9]*)", s): the leftmost match, or None
number_match_signed(s) ==
    LET ds == {i \in 1..Len(s) : s[i] \in Digits}
    IN  IF ds = {} THEN None
        ELSE LET i == SetMin(ds)
                 v == FloatOf(NumberAt(s, i))
             IN  IF i > 1 /\ s[i - 1] = "-" THEN Float(0 - v.m, v.e) ELSE v

number_match(s) ==
    LET ds == {i \in 1..Len(s) : s[i] \in Digits}
    IN  IF ds = {} THEN None ELSE FloatOf(NumberAt(s, SetMin(ds)))

-----------------------------------------------------------------------------
(* BrowserAgent._parse_financial_value *)

ParsePlaceholders == {<<"-", "-">>, <<"N", "/", "A">>, <<>>}

\* text.replace(",", "").replace("$", "").replace("%", "").strip()
cleaned_keeping_commas(s) == Strip(Remove(Remove(s, "$"), "%"))

cleaned(s) == Strip(Remove(Remove(Remove(s, ","), "$"), "%"))

\* the exponent of the multiplier chosen by the endswith chain
multiplier_swapped(c) ==
    IF EndsWith(c, "B") THEN 6
    ELSE IF EndsWith(c, "M") THEN 9
    ELSE IF EndsWith(c, "K") THEN 3
    ELSE IF EndsWith(c, "T") THEN 12
    ELSE 0

multiplier(c) ==
    IF EndsWith(c, "B") THEN 9
    ELSE IF EndsWith(c, "M") THEN 6
    ELSE IF EndsWith(c, "K") THEN 3
    ELSE IF EndsWith(c, "T") THEN 12
    ELSE 0

\* float(number_match.group(1)) * multiplier, or None
scaled_or_zero(c) ==
    LET k == multiplier(c)
        n == number_match(IF k > 0 THEN DropLast(c) ELSE c)
    IN  IF n = None THEN Float(0, 0) ELSE Normal(n.m, n.e + k)

scaled(c) ==
    LET k == multiplier(c)
        n == number_match(IF k > 0 THEN DropLast(c) ELSE c)
    IN  IF n = None THEN None ELSE Normal(n.m, n.e + k)

parse_financial_value(s) ==
    IF s = <<>> \/ Strip(s) \in ParsePlaceholders THEN None
    ELSE IF HasChar(s, "(") /\ HasChar(s, "%") /\ percent_match(s) # None
         THEN percent_match(s)
         ELSE scaled(cleaned(s))

-----------------------------------------------------------------------------
(* BrowserAgent._extract_fundamentals: the metrics and their selectors *)

\* the keys of metrics_to_extract, in dict order
MetricNames ==
    <<"previous_close", "open", "days_range", "volume",
      "avg_volume", "market_cap", "beta", "pe_ratio",
      "earnings_date", "target_est">>

\* a selector: a CSS text and the string formatted into its {} placeholder
Selector(css, arg) == [css |-> css, arg |-> arg]

\* the selector strings of metrics_to_extract
declared_css(metric) ==
    CASE metric = "previous_close" ->
           <<"div[data-testid=\"quote-statistics\"] td:has-text(\"Previous Close\") + td",
             "fin-streamer[data-field=\"regularMarketPreviousClose\"]",
             "[data-test=\"PREV_CLOSE-value\"]">>
      [] metric = "open" ->
           <<"div[data-testid=\"quote-statistics\"] td:has-text(\"Open\") + td",
             "fin-streamer[data-field=\"regularMarketOpen\"]",
             "[data-test=\"OPEN-value\"]">>
      [] metric = "days_range" ->
           <<"div[data-testid=\"quote-statistics\"] td:has-text(\"Day's Range\") + td",
             "fin-streamer[data-field=\"regularMarketDayRange\"]",
             "[data-test=\"DAYS_RANGE-value\"]">>
      [] metric = "volume" ->
           <<"div[data-testid=\"quote-statistics\"] td:has-text(\"Volume\") + td",
             "fin-streamer[data-field=\"regularMarketVolume\"]",
             "[data-test=\"TD_VOLUME-value\"]">>
      [] metric = "avg_volume" ->
           <<"div[data-testid=\"quote-statistics\"] td:has-text(\"Avg. Volume\") + td",
             "fin-streamer[data-field=\"averageVolume\"]",
             "[data-test=\"AVERAGE_VOLUME_3MONTH-value\"]">>
      [] metric = "market_cap" ->
           <<"div[data-testid=\"quote-statistics\"] td:has-text(\"Market Cap\") + td",
             "fin-streamer[data-field=\"marketCap\"]",
             "[data-test=\"MARKET_CAP-value\"]">>
      [] metric = "beta" ->
           <<"div[data-testid=\"quote-statistics\"] td:has-text(\"Beta\") + td",
             "fin-streamer[data-field=\"beta\"]",
             "[data-test=\"BETA_5Y-value\"]">>
      [] metric = "pe_ratio" ->
           <<"div[data-testid=\"quote-statistics\"] td:has-text(\"PE Ratio\") + td",
             "fin-streamer[data-field=\"trailingPE\"]",
             "[data-test=\"PE_RATIO-value\"]">>
      [] metric = "earnings_date" ->
           <<"div[data-testid=\"quote-statistics\"] td:has-text(\"Earnings Date\") + td",
             "fin-streamer[data-field=\"earningsDate\"]",
             "[data-test=\"EARNINGS_DATE-value\"]">>
      [] metric = "target_est" ->
           <<"div[data-testid=\"quote-statistics\"] td:has-text(\"1y Target Est\") + td",
             "fin-streamer[data-field=\"targetMeanPrice\"]",
             "[data-test=\"ONE_YEAR_TARGET_PRICE-value\"]">>

\* the characters of a metric name
NameChars(metric) ==
    CASE metric = "previous_close" -> <<"p", "r", "e", "v", "i", "o", "u", "s", "_", "c", "l", "o", "s", "e">>
      [] metric = "open" -> <<"o", "p", "e", "n">>
      [] metric = "days_range" -> <<"d", "a", "y", "s", "_", "r", "a", "n", "g", "e">>
      [] metric = "volume" -> <<"v", "o", "l", "u", "m", "e">>
      [] metric = "avg_volume" -> <<"a", "v", "g", "_", "v", "o", "l", "u", "m", "e">>
      [] metric = "market_cap" -> <<"m", "a", "r", "k", "e", "t", "_", "c", "a", "p">>
      [] metric = "beta" -> <<"b", "e", "t", "a">>
      [] metric = "pe_ratio" -> <<"p", "e", "_", "r", "a", "t", "i", "o">>
      [] metric = "earnings_date" -> <<"e", "a", "r", "n", "i", "n", "g", "s", "_", "d", "a", "t", "e">>
      [] metric = "target_est" -> <<"t", "a", "r", "g", "e", "t", "_", "e", "s", "t">>

\* the metrics kept as raw strings
StringMetrics == {"days_range", "earnings_date"}

\* range_selectors
range_selectors ==
    <<Selector("div[data-testid=\"quote-statistics\"] td:has-text(\"52 Week Range\") + td", <<>>),
      Selector("div[data-testid=\"quote-statistics\"] td:has-text(\"52-Week Range\") + td", <<>>),
      Selector("[data-test=\"FIFTY_TWO_WK_RANGE-value\"]", <<>>)>>

-----------------------------------------------------------------------------
(* str.lower, str.title, str.replace(a, b), str.split *)

UpperLetters ==
    <<"A", "B", "C", "D", "E", "F", "G", "H", "I", "J", "K", "L", "M",
      "N", "O", "P", "Q", "R", "S", "T", "U", "V", "W", "X", "Y", "Z">>

LowerLetters ==
    <<"a", "b", "c", "d", "e", "f", "g", "h", "i", "j", "k", "l", "m",
      "n", "o", "p", "q", "r", "s", "t", "u", "v", "w", "x", "y", "z">>

IsLetter(c) == \E k \in 1..26 : c = UpperLetters[k] \/ c = LowerLetters[k]

LowerChar(c) ==
    IF \E k \in 1..26 : c = UpperLetters[k]
    THEN LowerLetters[CHOOSE k \in 1..26 : c = UpperLetters[k]]
    ELSE c

UpperChar(c) ==
    IF \E k \in 1..26 : c = LowerLetters[k]
    THEN UpperLetters[CHOOSE k \in 1..26 : c = LowerLetters[k]]
    ELSE c

\* str.lower()
Lower(s) == [i \in 1..Len(s) |-> LowerChar(s[i])]

\* str.title(): a letter that follows a non-letter is upper-cased, the others
\* are lower-cased
Title(s) ==
    [i \in 1..Len(s) |->
        IF i = 1 \/ ~IsLetter(s[i - 1]) THEN UpperChar(s[i]) ELSE LowerChar(s[i])]

\* str.replace(a, b), for single characters
ReplaceChar(s, a, b) == [i \in 1..Len(s) |-> IF s[i] = a THEN b ELSE s[i]]

\* str.split(c, 1): s cut at the first occurrence of the character c only
Split_first(s, c) ==
    LET at == {i \in 1..Len(s) : s[i] = c}
    IN  IF at = {} THEN <<s>>
        ELSE <<SubSeq(s, 1, SetMin(at) - 1), SubSeq(s, SetMin(at) + 1, Len(s))>>

\* str.split(c): the parts of s between occurrences of the character c
RECURSIVE Split(_, _)
Split(s, c) ==
    LET at == {i \in 1..Len(s) : s[i] = c}
    IN  IF at = {} THEN <<s>>
        ELSE <<SubSeq(s, 1, SetMin(at) - 1)>>
                 \o Split(SubSeq(s, SetMin(at) + 1, Len(s)), c)

\* str.upper()
Upper(s) == [i \in 1..Len(s) |-> UpperChar(s[i])]

\* metrics_to_extract[metric]: the declared selector list of a metric
metrics_to_extract(metric) ==
    [i \in 1..Len(declared_css(metric)) |->
        Selector(declared_css(metric)[i], <<>>)]

\* fallback_selectors: the five selectors formatted from the metric name
fallback_selectors(metric) ==
    <<Selector("[data-testid*=\"{}\"]", NameChars(metric)),
      Selector("[data-test*=\"{}\"]", Upper(NameChars(metric))),
      Selector("[data-field*=\"{}\"]", NameChars(metric)),
      Selector("td[title*=\"{}\"]",
               Title(ReplaceChar(NameChars(metric), "_", " "))),
      Selector("span[title*=\"{}\"]",
               Title(ReplaceChar(NameChars(metric), "_", " ")))>>

-----------------------------------------------------------------------------
(* The label variants of the table scan *)

\* metric_variations.extend([...]) of each metric
known_variations(metric) ==
    CASE metric = "previous_close" ->
           <<<<"p", "r", "e", "v", "i", "o", "u", "s", " ", "c", "l", "o", "s", "e">>,
             <<"p", "r", "e", "v", " ", "c", "l", "o", "s", "e">>>>
      [] metric = "open" ->
           <<<<"o", "p", "e", "n">>>>
      [] metric = "days_range" ->
           <<<<"d", "a", "y", "'", "s", " ", "r", "a", "n", "g", "e">>,
             <<"d", "a", "y", "s", " ", "r", "a", "n", "g", "e">>>>
      [] metric = "volume" ->
           <<<<"v", "o", "l", "u", "m", "e">>>>
      [] metric = "avg_volume" ->
           <<<<"a", "v", "g", ".", " ", "v", "o", "l", "u", "m", "e">>,
             <<"a", "v", "e", "r", "a", "g", "e", " ", "v", "o", "l", "u", "m", "e">>>>
      [] metric = "market_cap" ->
           <<<<"m", "a", "r", "k", "e", "t", " ", "c", "a", "p">>,
             <<"m", "a", "r", "k", "e", "t", " ", "c", "a", "p", " ", "(", "i", "n", "t", "r", "a", "d", "a", "y", ")">>>>
      [] metric = "beta" ->
           <<<<"b", "e", "t", "a", " ", "(", "5", "y", " ", "m", "o", "n", "t", "h", "l", "y", ")">>,
             <<"b", "e", "t", "a">>>>
      [] metric = "pe_ratio" ->
           <<<<"p", "e", " ", "r", "a", "t", "i", "o", " ", "(", "t", "t", "m", ")">>,
             <<"p", "/", "e", " ", "r", "a", "t", "i", "o">>,
             <<"p", "e", " ", "r", "a", "t", "i", "o">>>>
      [] metric = "earnings_date" ->
           <<<<"e", "a", "r", "n", "i", "n", "g", "s", " ", "d", "a", "t", "e">>>>
      [] metric = "target_est" ->
           <<<<"1", "y", " ", "t", "a", "r", "g", "e", "t", " ", "e", "s", "t">>,
             <<"t", "a", "r", "g", "e", "t", " ", "p", "r", "i", "c", "e">>>>

metric_variations(metric) ==
    <<ReplaceChar(NameChars(metric), "_", " "),
      Title(ReplaceChar(NameChars(metric), "_", " ")),
      ReplaceChar(NameChars(metric), "_", "-")>>
        \o known_variations(metric)

-----------------------------------------------------------------------------
(* Input texts of the normalizer *)

\* every text over chars of length at most n
StrOver(chars, n) == UNION {[1..k -> chars] : k \in 0..n}

Alphabet ==
    {"0", "1", "2", ".", ",", "$", "%", "(", ")", "-",
     "K", "M", "B", "T", " ", "x"}

PreChars == {"1", ".", "-", " "}

InnerChars == {"2", "5", ".", "-", "+"}

\* texts holding a parenthesized group that ends in a percent sign
ParenTexts ==
    {p \o <<"(">> \o q \o <<"%", ")">> :
        p \in StrOver(PreChars, MaxPre), q \in StrOver(InnerChars, MaxInner)}

SpecPlaceholders ==
    {<<>>, <<"-", "-">>, <<"N", "/", "A">>, <<"N", "o", "n", "e">>}

Padding == {<<>>, <<" ">>, <<" ", " ">>}

PaddedPlaceholders ==
    {a \o p \o b : a \in Padding, p \in SpecPlaceholders, b \in Padding}

T_DividendYield ==
    <<"1", ".", "0", "4", " ", "(", "0", ".", "5", "1", "%", ")">>

T_SignedYield ==
    <<"1", ".", "0", "4", " ", "(", "-", "0", ".", "5", "1", "%", ")">>

T_Billions == <<"$", "2", ".", "5", "B">>

T_Thousands == <<"7", "5", "0", "K">>

T_Trillions == <<"1", ".", "2", "T">>

T_Negative == <<"-", "5", ".", "2">>

T_Grouped == <<"1", ",", "2", "3", "4", ".", "5", "M">>

ExampleTexts ==
    {T_DividendYield, T_SignedYield, T_Billions, T_Thousands, T_Trillions,
     T_Negative, T_Grouped}

ParseInputs ==
    StrOver(Alphabet, MaxLen) \cup ParenTexts \cup PaddedPlaceholders
        \cup ExampleTexts

-----------------------------------------------------------------------------
(* The normalizer applied to one text *)

ParseInit ==
    /\ text \in ParseInputs
    /\ value = None
    /\ parse_pc = "call"
    /\ OthersIdle("parse")

CallParse ==
    /\ parse_pc = "call"
    /\ value' = parse_financial_value(text)
    /\ parse_pc' = "return"
    /\ UNCHANGED <<text, outside_parse>>

ParseNext == CallParse

ParseSpec == ParseInit /\ [][ParseNext]_all_vars

-----------------------------------------------------------------------------
(* What the normalizer is specified to return, stated without its code *)

\* s is digits, optionally followed by a point and more digits
IsNumeral(s) ==
    /\ Len(s) > 0
    /\ s[1] \in Digits
    /\ \A i \in 1..Len(s) : s[i] \in Digits \cup {"."}
    /\ Cardinality({i \in 1..Len(s) : s[i] = "."}) <= 1

\* the decimal value of a numeral, digit by digit
NumeralValue(s) ==
    LET dots == {i \in 1..Len(s) : s[i] = "."}
        point == IF dots = {} THEN Len(s) + 1 ELSE SetMin(dots)
        ds == SelectSeq(s, LAMBDA c : c \in Digits)
        Pow10[k \in 0..Len(ds)] == IF k = 0 THEN 1 ELSE 10 * Pow10[k - 1]
        Sum[k \in 0..Len(ds)] ==
            IF k = 0 THEN 0
            ELSE Sum[k - 1] + DigitVal(ds[k]) * Pow10[Len(ds) - k]
    IN  Normal(Sum[Len(ds)], 0 - (Len(s) - point + 1 - Cardinality(dots)))

\* the leftmost, longest numeral inside s, as <<first, last>>; <<0, 0>> if none
FirstNumeral(s) ==
    LET spans == {ij \in (1..Len(s)) \X (1..Len(s)) :
                    ij[1] <= ij[2] /\ IsNumeral(SubSeq(s, ij[1], ij[2]))}
    IN  IF spans = {} THEN <<0, 0>>
        ELSE LET i == SetMin({ij[1] : ij \in spans})
             IN  <<i, SetMax({ij[2] : ij \in {x \in spans : x[1] = i}})>>

SuffixExponent(c) ==
    CASE c = "K" -> 3 [] c = "M" -> 6 [] c = "B" -> 9 [] c = "T" -> 12
      [] OTHER -> 0

\* strip "$", "%", ","; take a trailing K/M/B/T as the multiplier; the first
\* numeral times the multiplier, or None
ExpectedPlain(s) ==
    LET t == Strip(SelectSeq(s, LAMBDA c : c \notin {"$", "%", ","}))
        k == IF t = <<>> THEN 0 ELSE SuffixExponent(t[Len(t)])
        body == IF k > 0 THEN SubSeq(t, 1, Len(t) - 1) ELSE t
        span == FirstNumeral(body)
    IN  IF span = <<0, 0>> THEN None
        ELSE LET v == NumeralValue(SubSeq(body, span[1], span[2]))
             IN  Normal(v.m, v.e + k)

\* the numerals n for which s contains "(" sign n "%)", sign being one of the
\* given signs or nothing
ParenPercents(s, signs) ==
    LET spans == {x \in (1..Len(s)) \X (1..Len(s)) :
                    /\ x[1] + 3 <= x[2]
                    /\ s[x[1]] = "("
                    /\ s[x[2] - 1] = "%"
                    /\ s[x[2]] = ")"
                    /\ \/ IsNumeral(SubSeq(s, x[1] + 1, x[2] - 2))
                       \/ /\ s[x[1] + 1] \in signs
                          /\ IsNumeral(SubSeq(s, x[1] + 2, x[2] - 2))}
    IN  {SubSeq(s, x[1] + 1, x[2] - 2) : x \in spans}

Unsigned(n) == IF n[1] \in Digits THEN n ELSE SubSeq(n, 2, Len(n))

HasParenPercent(s) == ParenPercents(s, {"-", "+"}) # {}

\* the first digit of s comes right after a minus sign
MinusBeforeNumber(s) ==
    LET ds == {i \in 1..Len(s) : s[i] \in Digits}
    IN  ds # {} /\ SetMin(ds) > 1 /\ s[SetMin(ds) - 1] = "-"

-----------------------------------------------------------------------------
(* Claims about _parse_financial_value, checked under ParseSpec *)

\* C6: every placeholder "", "--", "N/A", "None", with or without surrounding
\* whitespace, is normalized to None.
C6_PlaceholdersGiveNone ==
    (parse_pc = "return" /\ Strip(text) \in SpecPlaceholders) => value = None

C6_Witness ==
    /\ parse_pc = "return"
    /\ text = <<" ", "N", "o", "n", "e", " ">>
    /\ value = None

\* C7 (as claimed): whenever the text holds a parenthesized percentage, signed
\* or not, the result is the number inside one of those parentheses.
C7_ParenPercentReturned ==
    (parse_pc = "return" /\ HasParenPercent(text)) =>
        \E n \in ParenPercents(text, {"-", "+"}) :
            value = NumeralValue(Unsigned(n))

\* C8: a text without a parenthesized percentage gives the first numeric
\* substring of the stripped text times the multiplier of its trailing
\* K/M/B/T, and None when it has no numeric substring.
C8_SuffixMagnitudes ==
    parse_pc = "return" =>
        /\ ~HasParenPercent(text) => value = ExpectedPlain(text)
        /\ text = T_Billions => value = Float(25, 8)
        /\ text = T_Thousands => value = Float(75, 4)
        /\ text = T_Trillions => value = Float(12, 11)

C8_Witness ==
    /\ parse_pc = "return"
    /\ text = T_Grouped
    /\ value = Float(12345, 5)

\* C9: the result is None or non-negative, and a text whose number follows a
\* minus sign gives the positive magnitude.
C9_SignDropped ==
    parse_pc = "return" =>
        /\ value # None => value.m >= 0
        /\ (MinusBeforeNumber(text) /\ ~HasParenPercent(text)) =>
              /\ value # None
              /\ value = ExpectedPlain(text)
        /\ text = T_Negative => value = Float(52, -1)

C9_Witness ==
    /\ parse_pc = "return"
    /\ text = T_Negative
    /\ value = Float(52, -1)

-----------------------------------------------------------------------------
(* The page: what a query can answer *)

T_Empty == <<>>

T_Dashes == <<" ", "-", "-", " ">>

T_Words == <<"n", "/", "a">>

T_553 == <<"5", "5", ".", "3">>

\* text_content() of an element a selector finds ("" also stands for None)
ElementTexts == {T_Empty, T_Dashes, T_Words, T_553}

NoElement == [kind |-> "none"]

Raised == [kind |-> "raise"]

Element(t) == [kind |-> "text", text |-> t]

\* what query_selector and text_content can give when the page may still
\* produce `left` elements
QueryOutcomes(left) ==
    {NoElement} \cup
    (IF left > 0 THEN {Raised} \cup {Element(t) : t \in ElementTexts} ELSE {})

R_PeTtm == <<<<"P", "/", "E", " ", "R", "a", "t", "i", "o", " ", "(", "T", "T", "M", ")">>, <<"1", "8", ".", "4">>>>

R_Pe == <<<<"P", "E", " ", "R", "a", "t", "i", "o">>, <<"5", "5", ".", "3">>>>

R_Cap == <<<<"M", "a", "r", "k", "e", "t", " ", "C", "a", "p">>, <<"-", "-">>>>

R_Beta == <<<<"B", "e", "t", "a", " ", "(", "5", "Y", " ", "M", "o", "n", "t", "h", "l", "y", ")">>>>

\* rows as the texts of their td / th cells
RowChoices == {R_PeTtm, R_Pe, R_Cap, R_Beta}

RowLists(left) == UNION {[1..k -> RowChoices] : k \in 0..left}

T_Range == <<"1", "2", "0", ".", "0", "0", " ", "-", " ", "1", "3", "0", ".", "0", "0">>

T_NoHyphen == <<"1", "2", "0", ".", "0", "0">>

T_BadSide == <<"n", "/", "a", " ", "-", " ", "1", "3", "0", ".", "0", "0">>

T_ZeroLow == <<"0", ".", "0", "0", " ", "-", " ", "1", "3", "0", ".", "0", "0">>

T_ThreeParts == <<"1", " ", "-", " ", "2", " ", "-", " ", "3">>

RangeTexts == {T_Range, T_NoHyphen, T_BadSide, T_ZeroLow, T_ThreeParts}

\* wait_for_selector: a timeout raises, otherwise the element's text
RangeOutcomes(left) ==
    {Raised} \cup
    (IF left > 0 THEN {Element(t) : t \in RangeTexts} ELSE {})

Cost(outcome) == IF outcome = NoElement THEN 0 ELSE 1

-----------------------------------------------------------------------------
(* dict *)

EmptyDict == [k \in {} |-> None]

Put(d, k, v) == [x \in DOMAIN d \cup {k} |-> IF x = k THEN v ELSE d[x]]

\* d.get(k)
Get(d, k) == IF k \in DOMAIN d THEN d[k] ELSE None

\* k not in d or d[k] is None
Lacks(d, k) == k \notin DOMAIN d \/ d[k] = None

-----------------------------------------------------------------------------
(* BrowserAgent._extract_fundamentals: the selector loops *)

SelectorPlaceholders ==
    {<<"-", "-">>, <<"N", "/", "A">>, <<>>, <<"N", "o", "n", "e">>}

\* what one query finds for the metric: a value, or None when the loop goes on
Extracted_unstripped(metric, outcome) ==
    IF outcome.kind = "text" /\ outcome.text # <<>>
          /\ outcome.text \notin SelectorPlaceholders
    THEN IF metric \in StringMetrics
         THEN Str(Strip(outcome.text))
         ELSE parse_financial_value(Strip(outcome.text))
    ELSE None

Extracted(metric, outcome) ==
    IF outcome.kind = "text" /\ outcome.text # <<>>
          /\ Strip(outcome.text) \notin SelectorPlaceholders
    THEN IF metric \in StringMetrics
         THEN Str(Strip(outcome.text))
         ELSE parse_financial_value(Strip(outcome.text))
    ELSE None

\* fundamentals[metric] = value, made only for a value that is not None
Stored_none_too(fund, metric, found) == Put(fund, metric, found)

Stored(fund, metric, found) ==
    IF found # None THEN Put(fund, metric, found) ELSE fund

Query(metric, list, index, selector, outcome) ==
    [metric |-> metric, list |-> list, index |-> index,
     selector |-> selector, outcome |-> outcome]

\* the next value of queried: a new metric starts a new record
Logged(entry) ==
    IF queried # <<>> /\ queried[1].metric = entry.metric
    THEN Append(queried, entry)
    ELSE <<entry>>

NextMetric ==
    IF metric_idx < Len(MetricNames)
    THEN /\ metric_idx' = metric_idx + 1
         /\ selector_idx' = 1
         /\ pc' = "primary"
    ELSE /\ metric_idx' = metric_idx
         /\ selector_idx' = 1
         /\ pc' = "log"

FundInit ==
    /\ pc = "start"
    /\ metric_idx = 1
    /\ selector_idx = 1
    /\ fundamentals = EmptyDict
    /\ queried = <<>>
    /\ shown = 0
    /\ after_selectors = EmptyDict
    /\ warned = {}
    /\ missing_metrics = <<>>
    /\ scanned = FALSE
    /\ page_rows = <<>>
    /\ range_queried = <<>>
    /\ fifty_two_week_range = None
    /\ result = None

\* lines 223-231: the waits and the scroll succeed
Begin ==
    /\ pc = "start"
    /\ pc' = "primary"
    /\ UNCHANGED <<outside_fundamentals, metric_idx, selector_idx, fundamentals, queried, shown,
                   after_selectors, warned, missing_metrics, scanned,
                   page_rows, range_queried, fifty_two_week_range, result>>

\* lines 289-318: one turn of the loop over the declared selectors
QueryPrimary ==
    /\ pc = "primary"
    /\ \E outcome \in QueryOutcomes(MaxElements - shown) :
         LET metric == MetricNames[metric_idx]
             selectors == metrics_to_extract(metric)
             found == Extracted(metric, outcome)
         IN  /\ queried' = Logged(Query(metric, "primary", selector_idx,
                                        selectors[selector_idx], outcome))
             /\ shown' = shown + Cost(outcome)
             /\ fundamentals' = Stored(fundamentals, metric, found)
             /\ IF found # None
                THEN NextMetric
                ELSE /\ metric_idx' = metric_idx
                     /\ IF selector_idx < Len(selectors)
                        THEN /\ selector_idx' = selector_idx + 1
                             /\ pc' = "primary"
                        ELSE /\ selector_idx' = 1
                             /\ pc' = "fallback"
    /\ UNCHANGED <<outside_fundamentals, after_selectors, warned, missing_metrics, scanned,
                   page_rows, range_queried, fifty_two_week_range, result>>

\* lines 320-352: one turn of the loop over fallback_selectors
QueryFallback ==
    /\ pc = "fallback"
    /\ \E outcome \in QueryOutcomes(MaxElements - shown) :
         LET metric == MetricNames[metric_idx]
             selectors == fallback_selectors(metric)
             found == Extracted(metric, outcome)
         IN  /\ queried' = Logged(Query(metric, "fallback", selector_idx,
                                        selectors[selector_idx], outcome))
             /\ shown' = shown + Cost(outcome)
             /\ fundamentals' = Stored(fundamentals, metric, found)
             /\ IF found # None
                THEN NextMetric
                ELSE /\ IF selector_idx < Len(selectors)
                        THEN /\ selector_idx' = selector_idx + 1
                             /\ metric_idx' = metric_idx
                             /\ pc' = "fallback"
                        ELSE NextMetric
    /\ UNCHANGED <<outside_fundamentals, after_selectors, warned, missing_metrics, scanned,
                   page_rows, range_queried, fifty_two_week_range, result>>

-----------------------------------------------------------------------------
(* BrowserAgent._extract_fundamentals: the scan of the table rows *)

\* lines 417-430 for one metric: the first variation found in the first cell
\* ends the loop over the variations, whether or not a value is stored
MatchMetric(first_cell_text, second_cell_text, metric, fund) ==
    LET variations == metric_variations(metric)
        hits == {k \in 1..Len(variations) :
                    Contains(first_cell_text, Lower(variations[k]))}
    IN  IF hits = {} \/ second_cell_text \in SelectorPlaceholders THEN fund
        ELSE IF metric \in StringMetrics
             THEN Put(fund, metric, Str(second_cell_text))
             ELSE IF parse_financial_value(second_cell_text) # None
                  THEN Put(fund, metric,
                           parse_financial_value(second_cell_text))
                  ELSE fund

\* lines 388-430: the loop over missing_metrics for one row
RECURSIVE ScanMetrics(_, _, _, _)
ScanMetrics(first_cell_text, second_cell_text, missing, fund) ==
    IF missing = <<>> THEN fund
    ELSE ScanMetrics(first_cell_text, second_cell_text, Tail(missing),
                     MatchMetric(first_cell_text, second_cell_text,
                                 Head(missing), fund))

\* lines 377-432 for one row
ScanRow(cells, missing, fund) ==
    IF Len(cells) >= 2 /\ cells[1] # <<>> /\ cells[2] # <<>>
    THEN ScanMetrics(Lower(Strip(cells[1])), Strip(cells[2]), missing, fund)
    ELSE fund

\* lines 376-432: the loop over all_rows
RECURSIVE ScanRows(_, _, _)
ScanRows(all_rows, missing, fund) ==
    IF all_rows = <<>> THEN fund
    ELSE ScanRows(Tail(all_rows), missing,
                  ScanRow(Head(all_rows), missing, fund))

\* lines 355-356: the metrics without a value, in dict order
StillMissing(fund) == SelectSeq(MetricNames, LAMBDA k : Lacks(fund, k))

\* line 360: [k for k, v in fundamentals.items() if v is None]
MissingMetrics(fund) ==
    SelectSeq(MetricNames, LAMBDA k : k \in DOMAIN fund /\ fund[k] = None)

\* lines 354-357: the warnings
LogMissing ==
    /\ pc = "log"
    /\ warned' = {MetricNames[i] : i \in
                    {j \in 1..Len(MetricNames) :
                        Lacks(fundamentals, MetricNames[j])}}
    /\ after_selectors' = fundamentals
    /\ pc' = "table"
    /\ UNCHANGED <<outside_fundamentals, metric_idx, selector_idx, fundamentals, queried, shown,
                   missing_metrics, scanned, page_rows, range_queried,
                   fifty_two_week_range, result>>

\* lines 359-434: the table fallback over the rows the page has; failed is a
\* query for the rows that raises (line 433)
TableFallback ==
    /\ pc = "table"
    /\ \E rows \in RowLists(MaxElements - shown), failed \in BOOLEAN :
         LET missing == MissingMetrics(fundamentals)
         IN  /\ page_rows' = rows
             /\ shown' = shown + Len(rows)
             /\ missing_metrics' = missing
             /\ IF missing # <<>>
                THEN /\ scanned' = ~failed
                     /\ fundamentals' =
                          IF failed THEN fundamentals
                          ELSE ScanRows(rows, missing, fundamentals)
                ELSE /\ ~failed
                     /\ scanned' = FALSE
                     /\ fundamentals' = fundamentals
    /\ pc' = "range"
    /\ selector_idx' = 1
    /\ UNCHANGED <<outside_fundamentals, metric_idx, queried, after_selectors, warned,
                   range_queried, fifty_two_week_range, result>>

-----------------------------------------------------------------------------
(* BrowserAgent._extract_fundamentals: the 52-week range and the result *)

\* FiftyTwoWeekRange(high=high, low=low)
FiftyTwoWeekRange(high, low) == [tag |-> "range", high |-> high, low |-> low]

\* lines 450-457 for one range text: the range, or None
RangeFrom_either(range_text) ==
    IF range_text # <<>> /\ HasChar(range_text, "-")
    THEN LET parts == Split(Strip(range_text), "-")
         IN  IF Len(parts) = 2
             THEN LET low == parse_financial_value(Strip(parts[1]))
                      high == parse_financial_value(Strip(parts[2]))
                  IN  IF Truthy(low) \/ Truthy(high)
                      THEN FiftyTwoWeekRange(high, low)
                      ELSE None
             ELSE None
    ELSE None

RangeFrom(range_text) ==
    IF range_text # <<>> /\ HasChar(range_text, "-")
    THEN LET parts == Split(Strip(range_text), "-")
         IN  IF Len(parts) = 2
             THEN LET low == parse_financial_value(Strip(parts[1]))
                      high == parse_financial_value(Strip(parts[2]))
                  IN  IF Truthy(low) /\ Truthy(high)
                      THEN FiftyTwoWeekRange(high, low)
                      ELSE None
             ELSE None
    ELSE None

\* lines 446-461: one turn of the loop over range_selectors
QueryRange ==
    /\ pc = "range"
    /\ \E outcome \in RangeOutcomes(MaxElements - shown) :
         LET found == IF outcome.kind = "text"
                      THEN RangeFrom(outcome.text) ELSE None
         IN  /\ range_queried' = Append(range_queried, outcome)
             /\ shown' = shown + (IF outcome.kind = "text" THEN 1 ELSE 0)
             /\ fifty_two_week_range' = found
             /\ IF found # None \/ selector_idx = Len(range_selectors)
                THEN /\ pc' = "return"
                     /\ selector_idx' = selector_idx
                ELSE /\ pc' = "range"
                     /\ selector_idx' = selector_idx + 1
    /\ UNCHANGED <<outside_fundamentals, metric_idx, fundamentals, queried, after_selectors,
                   warned, missing_metrics, scanned, page_rows, result>>

\* int(x) of a float x >= 0: the fraction is cut off
IntOf(v) ==
    IF v.e >= 0 THEN v
    ELSE LET Pow10[k \in 0..(0 - v.e)] ==
                 IF k = 0 THEN 1 ELSE 10 * Pow10[k - 1]
         IN  Normal(v.m \div Pow10[0 - v.e], 0)

\* int(fundamentals.get(k)) if fundamentals.get(k) else None
IntOrNone(fund, k) == IF Truthy(Get(fund, k)) THEN IntOf(Get(fund, k)) ELSE None

\* lines 465-494
FundamentalMetrics(fund, range) ==
    [tag |-> "FundamentalMetrics",
     previous_close |-> Get(fund, "previous_close"),
     open |-> Get(fund, "open"),
     days_range |-> Get(fund, "days_range"),
     volume |-> IntOrNone(fund, "volume"),
     avg_volume |-> IntOrNone(fund, "avg_volume"),
     market_cap |-> Get(fund, "market_cap"),
     beta |-> Get(fund, "beta"),
     pe_ratio |-> Get(fund, "pe_ratio"),
     target_est |-> Get(fund, "target_est"),
     earnings_date |-> Get(fund, "earnings_date"),
     fifty_two_week_range |-> range,
     bid |-> None, ask |-> None, eps |-> None, dividend_yield |-> None,
     ex_dividend_date |-> None, roe |-> None]

\* lines 463-494
ReturnMetrics ==
    /\ pc = "return"
    /\ result' = FundamentalMetrics(fundamentals, fifty_two_week_range)
    /\ pc' = "done"
    /\ UNCHANGED <<outside_fundamentals, metric_idx, selector_idx, fundamentals, queried, shown,
                   after_selectors, warned, missing_metrics, scanned,
                   page_rows, range_queried, fifty_two_week_range>>

\* lines 496-498: a wait or the scroll of lines 227-231 raises
FailEarly ==
    /\ pc = "start"
    /\ result' = FundamentalMetrics(EmptyDict, None)
    /\ pc' = "done"
    /\ UNCHANGED <<outside_fundamentals, metric_idx, selector_idx, fundamentals, queried, shown,
                   after_selectors, warned, missing_metrics, scanned,
                   page_rows, range_queried, fifty_two_week_range>>

-----------------------------------------------------------------------------
(* Specifications *)

Init == FundInit /\ OthersIdle("fundamentals")

Next ==
    \/ Begin
    \/ FailEarly
    \/ QueryPrimary
    \/ QueryFallback
    \/ LogMissing
    \/ TableFallback
    \/ QueryRange
    \/ ReturnMetrics

Spec == Init /\ [][Next]_all_vars

-----------------------------------------------------------------------------
(* Claims about the selector loops of _extract_fundamentals, under Spec *)

\* the metric whose queries are recorded in queried
LoggedMetric == queried[1].metric

PrimaryQueries == SelectSeq(queried, LAMBDA q : q.list = "primary")

\* the text is non-empty after trimming and no placeholder
ValidText(outcome) ==
    outcome.kind = "text" /\ Strip(outcome.text) \notin SpecPlaceholders

\* what a text is worth for a metric: the raw string, or its normalization
SpecValue(metric, t) ==
    IF metric \in StringMetrics THEN Str(Strip(t))
    ELSE parse_financial_value(Strip(t))

\* a valid text that, for a numeric metric, also normalizes to a number
Usable(metric, outcome) ==
    ValidText(outcome) /\ SpecValue(metric, outcome.text) # None

\* the selector loops of the recorded metric are over
SelectorsDone ==
    pc \notin {"primary", "fallback"} \/ MetricNames[metric_idx] # LoggedMetric

\* the declared selectors are queried in list order, before any other
DeclaredOrder ==
    \A i \in 1..Len(PrimaryQueries) :
        /\ queried[i] = PrimaryQueries[i]
        /\ queried[i].index = i
        /\ queried[i].selector = metrics_to_extract(LoggedMetric)[i]

\* C1 (as claimed): the declared selectors are queried in order, the stored
\* value is that of the first one whose trimmed text is non-empty and no
\* placeholder, and no selector is queried after it.
C1_FirstValidTextWins ==
    queried # <<>> =>
        LET hits == {i \in 1..Len(PrimaryQueries) :
                        ValidText(PrimaryQueries[i].outcome)}
        IN  /\ DeclaredOrder
            /\ hits # {} =>
                 /\ Len(queried) = SetMin(hits)
                 /\ Get(fundamentals, LoggedMetric) =
                      SpecValue(LoggedMetric, queried[SetMin(hits)].outcome.text)

\* C1 (amended): the declared selectors are queried in order, the stored value
\* is that of the first one whose trimmed text is non-empty, no placeholder
\* and, for a numeric metric, normalizes to a number; no selector is queried
\* after it; without such a selector the declared list stores nothing.
\* Selector 1 empty and selector 2 "55.3" gives 55.3.
C1_FirstUsableSelectorWins ==
    queried # <<>> =>
        LET hits == {i \in 1..Len(PrimaryQueries) :
                        Usable(LoggedMetric, PrimaryQueries[i].outcome)}
        IN  /\ DeclaredOrder
            /\ hits # {} =>
                 /\ Len(queried) = SetMin(hits)
                 /\ Get(fundamentals, LoggedMetric) =
                      SpecValue(LoggedMetric, queried[SetMin(hits)].outcome.text)
            /\ (hits = {} /\ Len(queried) = Len(PrimaryQueries)) =>
                 LoggedMetric \notin DOMAIN fundamentals
            /\ (/\ Len(queried) = 2
                /\ LoggedMetric \notin StringMetrics
                /\ queried[1].outcome = Element(T_Empty)
                /\ queried[2].outcome = Element(T_553)) =>
                 Get(fundamentals, LoggedMetric) = Float(553, -1)

C1_Witness ==
    /\ Len(queried) = 2
    /\ LoggedMetric = "pe_ratio"
    /\ queried[1].list = "primary" /\ queried[1].outcome = Element(T_Empty)
    /\ queried[2].list = "primary" /\ queried[2].outcome = Element(T_553)
    /\ Get(fundamentals, "pe_ratio") = Float(553, -1)
    /\ MetricNames[metric_idx] = "earnings_date"

\* C5 (as claimed): only declared selectors are queried, and a metric none of
\* whose declared selectors yields a value is absent after the selector loops.
C5_OnlyDeclaredSelectors ==
    queried # <<>> =>
        /\ \A i \in 1..Len(queried) : queried[i].list = "primary"
        /\ (/\ SelectorsDone
            /\ \A i \in 1..Len(PrimaryQueries) :
                  ~Usable(LoggedMetric, PrimaryQueries[i].outcome)) =>
              LoggedMetric \notin DOMAIN fundamentals

\* C5 (amended): a metric for which neither a declared selector nor one of the
\* five fallback selectors built from its name yields a value is absent after
\* the selector loops and is named in a warning; the fallback selectors are
\* queried only after every declared selector has failed, each selector is
\* queried at most once, and no other selector is queried.
C5_AbsentAfterBothLists ==
    /\ queried # <<>> =>
        /\ \A i \in 1..Len(queried) :
              \/ /\ queried[i].list = "primary"
                 /\ queried[i].selector
                      = metrics_to_extract(LoggedMetric)[queried[i].index]
              \/ /\ queried[i].list = "fallback"
                 /\ queried[i].selector
                      = fallback_selectors(LoggedMetric)[queried[i].index]
                 /\ Len(PrimaryQueries) = Len(metrics_to_extract(LoggedMetric))
                 /\ \A j \in 1..Len(PrimaryQueries) :
                       ~Usable(LoggedMetric, PrimaryQueries[j].outcome)
        /\ \A i, j \in 1..Len(queried) :
              (i # j) =>
                 <<queried[i].list, queried[i].index>>
                    # <<queried[j].list, queried[j].index>>
        /\ (/\ SelectorsDone
            /\ \A i \in 1..Len(queried) :
                  ~Usable(LoggedMetric, queried[i].outcome)) =>
              LoggedMetric \notin DOMAIN fundamentals
    /\ pc \in {"table", "range", "return"} =>
        /\ \A k \in DOMAIN after_selectors : after_selectors[k] # None
        /\ warned = {MetricNames[i] : i \in 1..Len(MetricNames)}
                        \ DOMAIN after_selectors

C5_Witness ==
    /\ pc = "table"
    /\ Len(queried) = 8
    /\ LoggedMetric = "target_est"
    /\ queried[2].outcome = Element(T_Words)
    /\ queried[5].outcome = Element(T_Dashes)
    /\ "target_est" \notin DOMAIN after_selectors
    /\ "target_est" \in warned

-----------------------------------------------------------------------------
(* Claims about the table scan of _extract_fundamentals, under Spec *)

\* the selector loops and the table step have run
PastTable == pc \in {"range", "return"} \/ (pc = "done" /\ queried # <<>>)

\* the first cell of the row holds, whatever the case, a label variant of the
\* metric, and the row has a second cell
RowMatches(cells, metric) ==
    /\ Len(cells) >= 2
    /\ \E k \in 1..Len(metric_variations(metric)) :
          Contains(Lower(Strip(cells[1])), Lower(metric_variations(metric)[k]))

\* the rows of the page that match the metric and carry a value for it
ValueRows(metric) ==
    {i \in 1..Len(page_rows) :
        /\ RowMatches(page_rows[i], metric)
        /\ Usable(metric, Element(page_rows[i][2]))}

\* C2 (as claimed): the rows are scanned exactly for the metrics that have no
\* value after the selector loops.
C2_ScanTargetsMissing ==
    PastTable =>
        /\ missing_metrics = StillMissing(after_selectors)
        /\ StillMissing(after_selectors) # <<>> => scanned

\* C3 (as claimed): a row whose first cell holds a label variant of a missing
\* metric sets the metric from its second cell; with pe_ratio missing, the row
\* ["P/E Ratio (TTM)", "18.4"] gives pe_ratio = 18.4.
C3_MatchingRowSetsMetric ==
    (pc = "done" /\ Len(page_rows) = 1) =>
        /\ \A i \in 1..Len(MetricNames) :
              (/\ Lacks(after_selectors, MetricNames[i])
               /\ ValueRows(MetricNames[i]) # {}) =>
                 Get(fundamentals, MetricNames[i])
                    = SpecValue(MetricNames[i], page_rows[1][2])
        /\ (Lacks(after_selectors, "pe_ratio") /\ page_rows = <<R_PeTtm>>) =>
              result.pe_ratio = Float(184, -1)

\* C4 (as claimed): the first row that matches a missing metric and carries a
\* value decides the metric; no later row changes it.
C4_FirstMatchingRowWins ==
    pc = "done" =>
        \A i \in 1..Len(MetricNames) :
            (/\ Lacks(after_selectors, MetricNames[i])
             /\ ValueRows(MetricNames[i]) # {}) =>
               Get(fundamentals, MetricNames[i])
                  = SpecValue(MetricNames[i],
                              page_rows[SetMin(ValueRows(MetricNames[i]))][2])

-----------------------------------------------------------------------------
(* Claims about the 52-week range, under Spec *)

\* the ways to cut t at one hyphen into a low side and a high side
Sides(t) ==
    {<<Strip(SubSeq(t, 1, i - 1)), Strip(SubSeq(t, i + 1, Len(t)))>> :
        i \in {j \in 1..Len(t) : t[j] = "-"}}

LastRangeText ==
    IF range_queried # <<>> /\ range_queried[Len(range_queried)].kind = "text"
    THEN range_queried[Len(range_queried)].text
    ELSE <<>>

\* C10: a range exists only if the text read last cuts at a hyphen into two
\* sides that both normalize, and it then holds exactly those two numbers as
\* low and high; a text without a hyphen or with a side that does not
\* normalize gives no range; "120.00 - 130.00" gives low 120.0, high 130.0;
\* the returned record carries the same range.
C10_RangeNeedsBothSides ==
    /\ fifty_two_week_range # None =>
          /\ \E lh \in Sides(LastRangeText) :
                /\ parse_financial_value(lh[1]) # None
                /\ parse_financial_value(lh[2]) # None
                /\ fifty_two_week_range.low = parse_financial_value(lh[1])
                /\ fifty_two_week_range.high = parse_financial_value(lh[2])
          /\ fifty_two_week_range.low.tag = "float"
          /\ fifty_two_week_range.high.tag = "float"
    /\ (\A lh \in Sides(LastRangeText) :
           \/ parse_financial_value(lh[1]) = None
           \/ parse_financial_value(lh[2]) = None) =>
          fifty_two_week_range = None
    /\ (range_queried # <<>> /\ LastRangeText = T_Range) =>
          fifty_two_week_range = FiftyTwoWeekRange(Float(13, 1), Float(12, 1))
    /\ (pc = "done" /\ queried # <<>>) =>
          result.fifty_two_week_range = fifty_two_week_range

C10_Witness ==
    /\ pc = "done"
    /\ Len(range_queried) = 2
    /\ range_queried[1] = Element(T_BadSide)
    /\ range_queried[2] = Element(T_Range)
    /\ result.fifty_two_week_range.low = Float(12, 1)
    /\ result.fifty_two_week_range.high = Float(13, 1)

\* the positions of the hyphens of t
Hyphens(t) == {i \in 1..Len(t) : t[i] = "-"}

\* the low and the high side of t cut at its first hyphen
FirstHyphenSides(t) ==
    <<Strip(SubSeq(t, 1, SetMin(Hyphens(t)) - 1)),
      Strip(SubSeq(t, SetMin(Hyphens(t)) + 1, Len(t)))>>

\* C11 (as claimed): the text read last is cut at its first hyphen only, and
\* whenever the part before it and everything after it both normalize, a
\* range with those two numbers exists, however many hyphens the text has.
C11_SplitAtFirstHyphen ==
    (range_queried # <<>> /\ Hyphens(LastRangeText) # {}) =>
        LET low == parse_financial_value(FirstHyphenSides(LastRangeText)[1])
            high == parse_financial_value(FirstHyphenSides(LastRangeText)[2])
        IN  (low # None /\ high # None) =>
                fifty_two_week_range = FiftyTwoWeekRange(high, low)

\* C11 (amended): the text read last is cut at every hyphen; a text with more
\* than one hyphen gives no range, and a text with exactly one hyphen gives
\* the range of its two sides exactly when both normalize to a number other
\* than zero; "1 - 2 - 3" gives no range.
C11_RangeNeedsSingleHyphen ==
    range_queried # <<>> =>
        /\ Cardinality(Hyphens(LastRangeText)) > 1 =>
              fifty_two_week_range = None
        /\ Cardinality(Hyphens(LastRangeText)) = 1 =>
              LET low == parse_financial_value(
                             FirstHyphenSides(LastRangeText)[1])
                  high == parse_financial_value(
                              FirstHyphenSides(LastRangeText)[2])
              IN  fifty_two_week_range =
                      IF Truthy(low) /\ Truthy(high)
                      THEN FiftyTwoWeekRange(high, low)
                      ELSE None
        /\ LastRangeText = T_ThreeParts => fifty_two_week_range = None

C11_Witness ==
    /\ pc = "done"
    /\ range_queried = <<Element(T_ThreeParts), Element(T_Range)>>
    /\ result.fifty_two_week_range
          = FiftyTwoWeekRange(Float(13, 1), Float(12, 1))

-----------------------------------------------------------------------------
(* BrowserAgent._extract_news *)

\* target_count
target_count == 5

\* article_selectors, by their number
article_selectors == 1..6

N_Alpha == <<"A">>

N_AlphaPadded == <<" ", "A", " ">>

N_Beta == <<"B">>

N_Blank == <<" ">>

\* text_content() of a link: None, or a text
TitleChoices == {None, Str(<<>>), Str(N_Blank), Str(N_Alpha),
                 Str(N_AlphaPadded), Str(N_Beta)}

H_Relative == <<"/", "n">>

H_Absolute == <<"h", "t", "t", "p", "s", ":", "/", "/", "x">>

\* get_attribute("href") of a link: None, or a text
HrefChoices == {None, Str(<<>>), Str(H_Relative), Str(H_Absolute)}

\* one article of the page: whether one of the link selectors finds a link in
\* it, the link's text and href, and whether one of the calls raises
ArticleChoices ==
    [link : BOOLEAN, title : TitleChoices, href : HrefChoices,
     raises : BOOLEAN]

\* truth value of an Optional[str]
TruthyStr(v) == v # None /\ v.s # <<>>

\* s.startswith(prefix)
StartsWith(s, prefix) ==
    Len(s) >= Len(prefix) /\ SubSeq(s, 1, Len(prefix)) = prefix

YahooBase ==
    <<"h", "t", "t", "p", "s", ":", "/", "/", "f", "i", "n", "a", "n", "c",
      "e", ".", "y", "a", "h", "o", "o", ".", "c", "o", "m">>

\* href if href.startswith("http") else f"https://finance.yahoo.com{href}"
url(href) ==
    IF StartsWith(href, <<"h", "t", "t", "p">>) THEN href
    ELSE YahooBase \o href

\* NewsItem(title=..., url=..., source="Yahoo Finance", published_date=...)
NewsItem(title, link) ==
    [title |-> title, url |-> link, source |-> "Yahoo Finance"]

\* the link, its title and its href were read and are truthy
Readable(article) ==
    /\ ~article.raises
    /\ article.link
    /\ TruthyStr(article.title)
    /\ TruthyStr(article.href)

\* the first pass over one article: news_items afterwards
first_pass(items, article) ==
    IF Readable(article) /\ Strip(article.title.s) # <<>>
    THEN Append(items, NewsItem(Strip(article.title.s), url(article.href.s)))
    ELSE items

\* any(item.title == title.strip() for item in news_items)
duplicate_unstripped(items, title) ==
    \E i \in 1..Len(items) : items[i].title = title

duplicate(items, title) ==
    \E i \in 1..Len(items) : items[i].title = Strip(title)

\* the retry pass over one article: news_items afterwards
retry_pass(items, article) ==
    IF Readable(article) /\ ~duplicate(items, article.title.s)
    THEN Append(items, NewsItem(Strip(article.title.s), url(article.href.s)))
    ELSE items

\* what query_selector_all can give: a number of articles, or an exception
ArticleCounts == 0..MaxArticles

NewsEntry ==
    /\ news_pc = "start"
    /\ news_selector_idx = 1
    /\ articles = 0
    /\ additional_articles = 0
    /\ article_idx = 1
    /\ news_items = <<>>
    /\ first_pass_items = 0
    /\ news_result = None

\* lines 547-548: the news page loads
NewsGoto ==
    /\ news_pc = "start"
    /\ news_pc' = "find"
    /\ UNCHANGED <<outside_news, news_selector_idx, articles,
                   additional_articles, article_idx, news_items,
                   first_pass_items, news_result>>

\* lines 683-685: goto or the wait raises
NewsGotoFails ==
    /\ news_pc = "start"
    /\ news_result' = <<>>
    /\ news_pc' = "done"
    /\ UNCHANGED <<outside_news, news_selector_idx, articles,
                   additional_articles, article_idx, news_items,
                   first_pass_items>>

\* lines 560-573: one turn of the loop over article_selectors
FindArticles ==
    /\ news_pc = "find"
    /\ \E raises \in BOOLEAN, found_articles \in ArticleCounts :
         IF ~raises /\ found_articles > 0
         THEN /\ articles' = found_articles
              /\ article_idx' = 1
              /\ news_pc' = "first"
              /\ UNCHANGED <<news_selector_idx, news_result>>
         ELSE IF news_selector_idx < Cardinality(article_selectors)
              THEN /\ news_selector_idx' = news_selector_idx + 1
                   /\ UNCHANGED <<articles, article_idx, news_pc, news_result>>
              ELSE /\ news_result' = <<>>
                   /\ news_pc' = "done"
                   /\ UNCHANGED <<news_selector_idx, articles, article_idx>>
    /\ UNCHANGED <<outside_news, additional_articles, news_items,
                   first_pass_items>>

\* lines 579-625: one turn of the loop over articles, and lines 627-628 when
\* the loop ends
ProcessArticle ==
    /\ news_pc = "first"
    /\ \E article \in ArticleChoices :
         LET items == first_pass(news_items, article)
         IN  /\ news_items' = items
             /\ first_pass_items' = Len(items)
             /\ IF article_idx < articles /\ Len(items) < target_count
                THEN /\ article_idx' = article_idx + 1
                     /\ news_pc' = "first"
                ELSE /\ article_idx' = article_idx
                     /\ news_pc' = IF Len(items) < target_count
                                   THEN "scroll" ELSE "return"
    /\ UNCHANGED <<outside_news, news_selector_idx, articles,
                   additional_articles, news_result>>

\* lines 632-634 and 677-678: the scroll, which may raise
Scroll ==
    /\ news_pc = "scroll"
    /\ \E raises \in BOOLEAN :
         news_pc' = IF raises THEN "return" ELSE "retry"
    /\ news_selector_idx' = 1
    /\ UNCHANGED <<outside_news, articles, additional_articles, article_idx,
                   news_items, first_pass_items, news_result>>

\* lines 637-643 and 674-676: one turn of the second loop over
\* article_selectors
QueryAdditional ==
    /\ news_pc = "retry"
    /\ \E raises \in BOOLEAN, found \in ArticleCounts :
         IF ~raises /\ found > articles
         THEN /\ additional_articles' = found
              /\ article_idx' = articles + 1
              /\ news_pc' = "retry_article"
              /\ UNCHANGED news_selector_idx
         ELSE /\ UNCHANGED <<additional_articles, article_idx>>
              /\ IF news_selector_idx < Cardinality(article_selectors)
                 THEN /\ news_selector_idx' = news_selector_idx + 1
                      /\ news_pc' = "retry"
                 ELSE /\ news_selector_idx' = news_selector_idx
                      /\ news_pc' = "return"
    /\ UNCHANGED <<outside_news, articles, news_items, first_pass_items,
                   news_result>>

\* lines 643-673: one turn of the loop over additional_articles[len(articles):]
ProcessAdditional ==
    /\ news_pc = "retry_article"
    /\ \E article \in ArticleChoices :
         LET items == retry_pass(news_items, article)
         IN  /\ news_items' = items
             /\ IF article_idx < additional_articles
                   /\ Len(items) < target_count
                THEN /\ article_idx' = article_idx + 1
                     /\ news_pc' = "retry_article"
                ELSE /\ article_idx' = article_idx
                     /\ news_pc' = "return"
    /\ UNCHANGED <<outside_news, news_selector_idx, articles,
                   additional_articles, first_pass_items, news_result>>

\* lines 680-681
ReturnNews ==
    /\ news_pc = "return"
    /\ news_result' = news_items
    /\ news_pc' = "done"
    /\ UNCHANGED <<outside_news, news_selector_idx, articles,
                   additional_articles, article_idx, news_items,
                   first_pass_items>>

NewsNext ==
    \/ NewsGoto
    \/ NewsGotoFails
    \/ FindArticles
    \/ ProcessArticle
    \/ Scroll
    \/ QueryAdditional
    \/ ProcessAdditional
    \/ ReturnNews

NewsInit == NewsEntry /\ OthersIdle("news")

NewsSpec == NewsInit /\ [][NewsNext]_all_vars

-----------------------------------------------------------------------------
(* Claims about _extract_news, under NewsSpec *)

\* C12: news_items never holds more than 5 items, so at most 5 are returned
\* after the first pass and after the retry pass; every item appended in the
\* retry pass carries a trimmed title that differs from the title of every
\* item collected before it.
C12_AtMostFiveNoRetryDuplicates ==
    /\ Len(news_items) <= 5
    /\ news_pc = "done" => Len(news_result) <= 5
    /\ \A i \in (first_pass_items + 1)..Len(news_items) :
          /\ Strip(news_items[i].title) = news_items[i].title
          /\ \A j \in 1..(i - 1) : news_items[j].title # news_items[i].title

C12_Witness ==
    /\ news_pc = "done"
    /\ first_pass_items = 3
    /\ Len(news_result) = 5
    /\ news_result[1].title = N_Alpha
    /\ news_result[2].title = N_Alpha
    /\ news_result[4].title = N_Beta
    /\ news_result[5].title = <<>>
    /\ article_idx < additional_articles

-----------------------------------------------------------------------------
(* float arithmetic on decimals *)

Pow10(k) ==
    LET P[i \in 0..k] == IF i = 0 THEN 1 ELSE 10 * P[i - 1]
    IN  P[k]

\* the mantissa of v at the exponent e <= v.e
MantissaAt(v, e) == v.m * Pow10(v.e - e)

\* a + b
FloatAdd(a, b) ==
    LET e == IF a.e < b.e THEN a.e ELSE b.e
    IN  Normal(MantissaAt(a, e) + MantissaAt(b, e), e)

\* n * a, n an int
FloatTimes(n, a) == Normal(n * a.m, a.e)

\* a < b
FloatLess(a, b) ==
    LET e == IF a.e < b.e THEN a.e ELSE b.e
    IN  MantissaAt(a, e) < MantissaAt(b, e)

\* min(a, b)
FloatMin(a, b) == IF FloatLess(b, a) THEN b ELSE a

-----------------------------------------------------------------------------
(* RedditSentimentAnalyzer._parse_sentiment_fallback *)

positive_words ==
    <<<<"b", "u", "l", "l", "i", "s", "h">>,
      <<"b", "u", "y">>,
      <<"p", "o", "s", "i", "t", "i", "v", "e">>,
      <<"g", "o", "o", "d">>,
      <<"g", "r", "e", "a", "t">>,
      <<"s", "t", "r", "o", "n", "g">>,
      <<"u", "p">>,
      <<"m", "o", "o", "n">>,
      <<"r", "o", "c", "k", "e", "t">>>>

negative_words ==
    <<<<"b", "e", "a", "r", "i", "s", "h">>,
      <<"s", "e", "l", "l">>,
      <<"n", "e", "g", "a", "t", "i", "v", "e">>,
      <<"b", "a", "d">>,
      <<"w", "e", "a", "k">>,
      <<"d", "o", "w", "n">>,
      <<"c", "r", "a", "s", "h">>,
      <<"d", "u", "m", "p">>>>

\* sum(1 for word in words if word in text_lower)
CountFound(words, text_lower) ==
    Cardinality({k \in 1..Len(words) : Contains(text_lower, words[k])})

\* text.count(c)
CountChar(s, c) == Cardinality({i \in 1..Len(s) : s[i] = c})

\* min(0.8, 0.5 + diff * 0.1)
fallback_confidence_uncapped(diff) ==
    FloatAdd(Float(5, -1), FloatTimes(diff, Float(1, -1)))

fallback_confidence(diff) ==
    FloatMin(Float(8, -1),
             FloatAdd(Float(5, -1), FloatTimes(diff, Float(1, -1))))

parse_sentiment_fallback(t) ==
    LET text_lower == Lower(t)
        positive_count == CountFound(positive_words, text_lower)
        negative_count == CountFound(negative_words, text_lower)
        sentiment == IF positive_count > negative_count THEN "positive"
                     ELSE IF negative_count > positive_count THEN "negative"
                     ELSE "neutral"
        confidence ==
            IF positive_count > negative_count
            THEN fallback_confidence(positive_count - negative_count)
            ELSE IF negative_count > positive_count
                 THEN fallback_confidence(negative_count - positive_count)
                 ELSE Float(5, -1)
    IN  [sentiment |-> sentiment,
         confidence |-> confidence,
         posts_count |-> CountChar(t, "\n") \div 3,
         key_points |-> <<<<"Detected", positive_count, "positive and",
                            negative_count, "negative indicators">>>>,
         summary |-> <<"Fallback analysis shows", sentiment,
                       "sentiment with", confidence, "confidence">>]

\* words of the texts handed to the fallback
W_bullish == <<"b", "u", "l", "l", "i", "s", "h">>

W_BUY == <<"B", "U", "Y">>

W_good == <<"g", "o", "o", "d">>

W_moon == <<"m", "o", "o", "n">>

W_sell == <<"s", "e", "l", "l">>

W_bad == <<"b", "a", "d">>

W_update == <<"u", "p", "d", "a", "t", "e">>

W_newline == <<"\n">>

FallbackWords ==
    {W_bullish, W_BUY, W_good, W_moon, W_sell, W_bad, W_update, W_newline}

\* " ".join(words)
RECURSIVE Join(_)
Join(words) ==
    IF words = <<>> THEN <<>>
    ELSE IF Len(words) = 1 THEN words[1]
    ELSE words[1] \o <<" ">> \o Join(Tail(words))

FallbackTexts ==
    {Join(ws) : ws \in UNION {[1..k -> FallbackWords] : k \in 0..MaxWords}}

FallbackInit ==
    /\ fb_text \in FallbackTexts
    /\ fb_result = None
    /\ fb_pc = "call"
    /\ OthersIdle("fallback")

CallFallback ==
    /\ fb_pc = "call"
    /\ fb_result' = parse_sentiment_fallback(fb_text)
    /\ fb_pc' = "return"
    /\ UNCHANGED <<fb_text, outside_fallback>>

FallbackNext == CallFallback

FallbackSpec == FallbackInit /\ [][FallbackNext]_all_vars

-----------------------------------------------------------------------------
(* Claims about _parse_sentiment_fallback, under FallbackSpec *)

\* the keywords of a list that occur in the text, whatever the case
KeywordsIn(words, t) ==
    {w \in {words[k] : k \in 1..Len(words)} : Contains(Lower(t), w)}

\* tenths as a decimal
Tenths(n) == Normal(n, -1)

T_ThreeToOne == Join(<<W_bullish, W_BUY, W_good, W_sell>>)

T_Tie == Join(<<W_good, W_bad>>)

\* C13: the label is positive when more positive than negative keywords occur
\* in the text, negative in the opposite case and neutral on a tie; the
\* confidence is min(0.8, 0.5 + 0.1 * |pos_count - neg_count|); 3 positive and
\* 1 negative keyword give positive with 0.7, a tie gives neutral with 0.5.
C13_MajorityLabelCappedConfidence ==
    fb_pc = "return" =>
        LET pos_count == Cardinality(KeywordsIn(positive_words, fb_text))
            neg_count == Cardinality(KeywordsIn(negative_words, fb_text))
            gap == IF pos_count > neg_count THEN pos_count - neg_count
                   ELSE neg_count - pos_count
        IN  /\ pos_count > neg_count => fb_result.sentiment = "positive"
            /\ neg_count > pos_count => fb_result.sentiment = "negative"
            /\ pos_count = neg_count => fb_result.sentiment = "neutral"
            /\ fb_result.confidence =
                  Tenths(IF 5 + gap > 8 THEN 8 ELSE 5 + gap)
            /\ (pos_count = 3 /\ neg_count = 1) =>
                  /\ fb_result.sentiment = "positive"
                  /\ fb_result.confidence = Float(7, -1)
            /\ pos_count = neg_count => fb_result.confidence = Float(5, -1)
            /\ fb_text = T_Tie =>
                  /\ fb_result.sentiment = "neutral"
                  /\ fb_result.confidence = Float(5, -1)

C13_Witness ==
    /\ fb_pc = "return"
    /\ fb_text = T_ThreeToOne
    /\ fb_result.sentiment = "positive"
    /\ fb_result.confidence = Float(7, -1)

-----------------------------------------------------------------------------
(* Python values decoded from JSON *)

PyInt(n) == [tag |-> "int", n |-> n]

PyBool(b) == [tag |-> "bool", b |-> b]

PyList(items) == [tag |-> "list", items |-> items]

\* truth value of a Python value
PyTruthy(v) ==
    CASE v.tag = "none" -> FALSE
      [] v.tag = "float" -> v.m # 0
      [] v.tag = "int" -> v.n # 0
      [] v.tag = "bool" -> v.b
      [] v.tag = "str" -> v.s # <<>>
      [] v.tag = "list" -> v.items # <<>>

\* v or default
Or(v, default) == IF PyTruthy(v) THEN v ELSE default

\* float(s) of a str: optional whitespace around an optional sign and digits
\* with at most one point and at least one digit; None stands for ValueError
py_float(s) ==
    LET t == Strip(s)
        u == IF t # <<>> /\ t[1] \in {"+", "-"} THEN Tail(t) ELSE t
        points == {i \in 1..Len(u) : u[i] = "."}
        digits == SelectSeq(u, LAMBDA c : c \in Digits)
    IN  IF /\ digits # <<>>
           /\ \A i \in 1..Len(u) : u[i] \in Digits \cup {"."}
           /\ Cardinality(points) <= 1
        THEN LET frac == IF points = {} THEN 0 ELSE Len(u) - SetMin(points)
                 v == Normal(DigitsToInt(digits), 0 - frac)
             IN  IF t[1] = "-" THEN Float(0 - v.m, v.e) ELSE v
        ELSE None

\* float(v) of an int, a float or a bool
float_of_number(v) ==
    CASE v.tag = "float" -> v
      [] v.tag = "int" -> Normal(v.n, 0)
      [] v.tag = "bool" -> IF v.b THEN Float(1, 0) ELSE Float(0, 0)

\* int(v) of a float or of a text, 0 when int raises ValueError or TypeError
int_or_zero(v) ==
    CASE v.tag = "float" ->
           PyInt(IF v.e >= 0 THEN v.m * Pow10(v.e)
               ELSE IF v.m >= 0 THEN v.m \div Pow10(0 - v.e)
               ELSE 0 - ((0 - v.m) \div Pow10(0 - v.e)))
      [] v.tag = "str" ->
           IF Strip(v.s) # <<>> /\ \A i \in 1..Len(Strip(v.s)) :
                                       Strip(v.s)[i] \in Digits
           THEN PyInt(DigitsToInt(Strip(v.s))) ELSE PyInt(0)
      [] OTHER -> PyInt(0)

-----------------------------------------------------------------------------
(* RedditSentimentAnalyzer._analyze_text_sentiment *)

L_positive == <<"p", "o", "s", "i", "t", "i", "v", "e">>

L_negative == <<"n", "e", "g", "a", "t", "i", "v", "e">>

L_neutral == <<"n", "e", "u", "t", "r", "a", "l">>

L_bullish == <<"b", "u", "l", "l", "i", "s", "h">>

\* the characters of a label of the keyword fallback
LabelChars(label) ==
    CASE label = "positive" -> L_positive
      [] label = "negative" -> L_negative
      [] label = "neutral" -> L_neutral

S_AnalysisCompleted == <<"Analysis completed">>

S_NoClearSentiment == <<"No clear sentiment found">>

S_AnalysisFailed == <<"Analysis failed">>

S_Summary == <<"s">>

S_Point == <<"k">>

\* a JSON object as the dict json.loads gives; a missing key reads as None
JsonObject(sentiment, confidence, posts_count, key_points, summary) ==
    [sentiment |-> sentiment, confidence |-> confidence,
     posts_count |-> posts_count, key_points |-> key_points,
     summary |-> summary]

\* lines 276-304: validated_result
validated_confidence(confidence) ==
    IF confidence.tag \in {"int", "float", "bool"}
    THEN float_of_number(confidence)
    ELSE IF confidence # None
         THEN IF confidence.tag = "str" /\ py_float(confidence.s) # None
              THEN py_float(confidence.s)
              ELSE Float(5, -1)
         ELSE Or(confidence, Float(5, -1))

validated_posts_count(posts_count) ==
    IF posts_count.tag = "int" THEN posts_count
    ELSE IF posts_count # None THEN int_or_zero(posts_count)
    ELSE PyInt(0)

validated_result(object) ==
    [sentiment |-> Or(object.sentiment, Str(L_neutral)),
     confidence |-> validated_confidence(object.confidence),
     posts_count |-> validated_posts_count(object.posts_count),
     key_points |-> Or(object.key_points, PyList(<<>>)),
     summary |-> Or(object.summary, Str(S_AnalysisCompleted))]

\* the dict _parse_sentiment_fallback returns, its strings as characters
FallbackData(t) ==
    LET fb == parse_sentiment_fallback(t)
    IN  [sentiment |-> Str(LabelChars(fb.sentiment)),
         confidence |-> fb.confidence,
         posts_count |-> PyInt(fb.posts_count),
         key_points |-> PyList(fb.key_points),
         summary |-> Str(fb.summary)]

\* lines 314-322: the dict returned when the LLM call raises
FailureData ==
    [sentiment |-> Str(L_neutral),
     confidence |-> Float(3, -1),
     posts_count |-> PyInt(0),
     key_points |-> PyList(<<S_AnalysisFailed>>),
     summary |-> Str(<<"Could not analyze sentiment">>)]

\* re.search(r"\{.*\}", response_text, re.DOTALL) finds a match
json_match(t) ==
    \E i, j \in 1..Len(t) : i < j /\ t[i] = "{" /\ t[j] = "}"

\* what ollama.chat gave: an exception, a text whose braces (if any) hold no
\* JSON, or a text whose braces hold the JSON object
CallRaised == [kind |-> "raise"]

ResponseText(t) == [kind |-> "text", text |-> t]

ResponseJson(object) == [kind |-> "json", object |-> object]

analyze_text_sentiment(llm) ==
    CASE llm.kind = "raise" -> FailureData
      [] llm.kind = "json" -> validated_result(llm.object)
      [] llm.kind = "text" -> FallbackData(llm.text)

-----------------------------------------------------------------------------
(* RedditSentimentAnalyzer.analyze_sentiment *)

\* pydantic accepts the value for a str field
IsStr(v) == v.tag = "str"

\* pydantic accepts the value for a List[str] field
IsStrList(v) == v.tag = "list"

\* lines 114-123: RedditSentiment(...), None when the validation raises
RedditSentiment(data, ocr_text) ==
    LET overall_sentiment == Or(data.sentiment, Str(L_neutral))
        confidence_score == Or(data.confidence, Float(5, -1))
        posts_analyzed == Or(data.posts_count, PyInt(0))
        key_discussions == Or(data.key_points, PyList(<<>>))
        sentiment_summary == Or(data.summary, Str(S_NoClearSentiment))
    IN  IF IsStr(overall_sentiment) /\ IsStrList(key_discussions)
              /\ IsStr(sentiment_summary)
        THEN [tag |-> "RedditSentiment",
              overall_sentiment |-> overall_sentiment.s,
              confidence_score |-> confidence_score,
              posts_analyzed |-> posts_analyzed.n,
              key_discussions |-> key_discussions.items,
              sentiment_summary |-> sentiment_summary.s,
              extracted_text |-> ocr_text]
        ELSE None

\* the values the LLM can put into the fields of its JSON object
SentimentValues ==
    {None, Str(L_positive), Str(L_negative), Str(L_neutral), Str(L_bullish),
     Str(<<>>), PyInt(1)}

C_High == <<"h", "i", "g", "h">>

C_Text09 == <<"0", ".", "9">>

ConfidenceValues ==
    {None, Float(9, -1), Float(15, -1), Float(-2, -1), PyInt(85), PyInt(0),
     PyInt(1), PyBool(TRUE), Str(C_Text09), Str(C_High), PyList(<<>>)}

PostsCountValues == {None, PyInt(12), Float(37, -1), Str(<<"m">>)}

KeyPointsValues == {None, PyList(<<S_Point>>), Str(S_Point)}

SummaryValues == {None, Str(S_Summary)}

JsonObjects ==
    {JsonObject(a, c, n, k, m) :
        a \in SentimentValues, c \in ConfidenceValues,
        n \in PostsCountValues, k \in KeyPointsValues, m \in SummaryValues}

\* texts without JSON: some words, bare or between braces
ProseTexts ==
    {Join(ws) : ws \in UNION {[1..k -> FallbackWords] : k \in 0..2}}

ResponseTexts ==
    ProseTexts \cup {<<"{">> \o t \o <<"}">> : t \in ProseTexts}

Responses ==
    {CallRaised} \cup {ResponseText(t) : t \in ResponseTexts}
                 \cup {ResponseJson(d) : d \in JsonObjects}

\* what OCR can give: None, an empty text, a text
OcrTexts == {None, Str(<<>>), Str(T_Tie)}

SentimentEntry ==
    /\ sent_pc = "start"
    /\ extracted_text = None
    /\ response = None
    /\ sentiment_data = None
    /\ sentiment_record = None

SentimentInit == SentimentEntry /\ OthersIdle("sentiment")

\* lines 91-92: initialize() returns, or raises out of analyze_sentiment
EnsureInitialized ==
    /\ sent_pc = "start"
    /\ \E raises \in BOOLEAN :
         sent_pc' = IF raises THEN "raised" ELSE "screenshot"
    /\ UNCHANGED <<outside_sentiment, extracted_text, response,
                   sentiment_data, sentiment_record>>

\* lines 98-102 and 125-127: the screenshot is taken, or None is returned
CaptureScreenshot ==
    /\ sent_pc = "screenshot"
    /\ \E captured \in BOOLEAN :
         sent_pc' = IF captured THEN "ocr" ELSE "done"
    /\ UNCHANGED <<outside_sentiment, extracted_text, response,
                   sentiment_data, sentiment_record>>

\* lines 105-109: the text of the screenshot, or None is returned
ExtractText ==
    /\ sent_pc = "ocr"
    /\ \E ocr \in OcrTexts :
         /\ extracted_text' = ocr
         /\ sent_pc' = IF PyTruthy(ocr) THEN "llm" ELSE "done"
    /\ UNCHANGED <<outside_sentiment, response, sentiment_data,
                   sentiment_record>>

\* line 112: _analyze_text_sentiment
AnalyzeText ==
    /\ sent_pc = "llm"
    /\ \E llm \in Responses :
         /\ response' = llm
         /\ sentiment_data' = analyze_text_sentiment(llm)
    /\ sent_pc' = "build"
    /\ UNCHANGED <<outside_sentiment, extracted_text, sentiment_record>>

\* lines 114-127: the record is built and returned, or None is returned
BuildRecord ==
    /\ sent_pc = "build"
    /\ sentiment_record' = RedditSentiment(sentiment_data, extracted_text.s)
    /\ sent_pc' = "done"
    /\ UNCHANGED <<outside_sentiment, extracted_text, response,
                   sentiment_data>>

SentimentNext ==
    \/ EnsureInitialized
    \/ CaptureScreenshot
    \/ ExtractText
    \/ AnalyzeText
    \/ BuildRecord

SentimentSpec == SentimentInit /\ [][SentimentNext]_all_vars

-----------------------------------------------------------------------------
(* Claims about analyze_sentiment, under SentimentSpec *)

SentimentLabels == {L_positive, L_negative, L_neutral}

\* 0 <= v <= 1
InUnitInterval(v) == v.m >= 0 /\ ~FloatLess(Float(1, 0), v)

\* C14 (as claimed): every record analyze_sentiment returns has its label in
\* {positive, negative, neutral} and its confidence within [0,1], whatever
\* the LLM responded.
C14_LabelAndConfidenceInRange ==
    sentiment_record # None =>
        /\ sentiment_record.overall_sentiment \in SentimentLabels
        /\ InUnitInterval(sentiment_record.confidence_score)

-----------------------------------------------------------------------------
(* BrowserAgent._safe_float *)

\* re.sub(r"[^0-9.-]", "", value.replace(",", ""))
safe_float_cleaned(s) ==
    SelectSeq(Remove(s, ","), LAMBDA c : c \in Digits \cup {".", "-"})

\* _safe_float(value) for value None or a str
safe_float(v) ==
    IF v = None THEN None
    ELSE IF safe_float_cleaned(v.s) = <<>>
              \/ safe_float_cleaned(v.s) = <<"-", "-">>
         THEN None
         ELSE py_float(safe_float_cleaned(v.s))

-----------------------------------------------------------------------------
(* BrowserAgent._extract_basic_info *)

\* the ticker the quote page was opened for
Ticker == <<"T">>

\* a number as the page writes it, with or without a thousands separator
Numerals == {<<"1", "7", "3", ".", "5", "0">>, <<"1", ".", "2", "0">>, <<"0", ".", "7", "0">>, <<"1", ",", "2", "3", "4", ".", "5", "6">>}

Signs == {<<>>, <<"+">>, <<"-">>}

\* sign, numeral, optional percent sign, optional parentheses
DecoratedTexts ==
    {(IF paren THEN <<"(">> ELSE <<>>) \o sign \o n
        \o (IF percent THEN <<"%">> ELSE <<>>)
        \o (IF paren THEN <<")">> ELSE <<>>) :
        sign \in Signs, n \in Numerals, percent \in BOOLEAN,
        paren \in BOOLEAN}

\* texts that hold no number
OtherTexts == {<<>>, <<"-", "-">>, <<"N", "/", "A">>, <<"1", ".", "2", ".", "3">>}

\* an element the page has, with the text text_content() gives
PriceElements ==
    {Element(sign \o n) : sign \in {<<>>, <<"$">>}, n \in Numerals}
        \cup {Element(t) : t \in OtherTexts}

ChangeElements == {Element(t) : t \in DecoratedTexts \cup OtherTexts}

\* wait_for_selector raises when the price element does not appear;
\* query_selector gives None for a missing element; a call may raise
PriceOutcomes == PriceElements \cup {Raised}

ChangeOutcomes == ChangeElements \cup {NoElement, Raised}

TI_Named == <<"A", " ", "I", "n", "c", " ", "(", "T", ")">>

TI_Plain == <<"A">>

TitleOutcomes == {Element(TI_Named), Element(TI_Plain), NoElement, Raised}

\* what _extract_price_from_html finds in the page source
HtmlPrices == {Float(0, 0), Float(1735, -1)}

\* v or 0.0, for an Optional[float]
OrZero(v) == IF Truthy(v) THEN v ELSE Float(0, 0)

\* StockPrice(current_price=..., change=..., change_percent=..., ...)
StockPrice(price, delta, percent) ==
    [tag |-> "StockPrice", current_price |-> price, change |-> delta,
     change_percent |-> percent, currency |-> "USD"]

\* lines 161-181: change and change_percent; an exception in the
\* block sets both to 0
changes(change_outcome, percent_outcome) ==
    IF change_outcome = Raised \/ percent_outcome = Raised
    THEN <<Float(0, 0), Float(0, 0)>>
    ELSE <<IF change_outcome = NoElement THEN Float(0, 0)
           ELSE safe_float(Str(Remove(Remove(change_outcome.text, "+"), ","))),
           IF percent_outcome = NoElement THEN Float(0, 0)
           ELSE safe_float(Str(Remove(Remove(Remove(Remove(
                    percent_outcome.text, "+"), "%"), "("), ")")))>>

\* lines 186-192: company_name
name_of(title_outcome) ==
    IF title_outcome.kind = "text" /\ title_outcome.text # <<>>
          /\ HasChar(title_outcome.text, "(")
    THEN Strip(Split(title_outcome.text, "(")[1])
    ELSE Ticker

\* StockPrice(current_price=0.0, change=0.0, change_percent=0.0, ...) under
\* the ticker as company name
ZeroInfo ==
    [company_name |-> Ticker,
     price_info |-> StockPrice(Float(0, 0), Float(0, 0), Float(0, 0))]

InfoEntry ==
    /\ info_pc = "price"
    /\ page_price \in PriceOutcomes
    /\ page_change \in ChangeOutcomes
    /\ page_change_percent \in ChangeOutcomes
    /\ page_title \in TitleOutcomes
    /\ current_price = None
    /\ change = None
    /\ change_percent = None
    /\ company_name = None
    /\ basic_info = None

InfoInit == InfoEntry /\ OthersIdle("info")

\* lines 138-147: the price element, or the price found in the page source
ReadPrice ==
    /\ info_pc = "price"
    /\ IF page_price = Raised
       THEN \E html_price \in HtmlPrices : current_price' = html_price
       ELSE current_price' = safe_float(Str(Remove(page_price.text, ",")))
    /\ info_pc' = "change"
    /\ UNCHANGED <<outside_info, page_price, page_change, page_change_percent,
                   page_title, change, change_percent, company_name,
                   basic_info>>

\* lines 144-146 and 208-219: the price element is missing and reading the
\* page source raises
ReadPriceFails ==
    /\ info_pc = "price"
    /\ page_price = Raised
    /\ basic_info' = ZeroInfo
    /\ info_pc' = "done"
    /\ UNCHANGED <<outside_info, page_price, page_change, page_change_percent,
                   page_title, current_price, change, change_percent,
                   company_name>>

\* lines 155-181
ReadChanges ==
    /\ info_pc = "change"
    /\ change' = changes(page_change, page_change_percent)[1]
    /\ change_percent' = changes(page_change, page_change_percent)[2]
    /\ info_pc' = "name"
    /\ UNCHANGED <<outside_info, page_price, page_change, page_change_percent,
                   page_title, current_price, company_name, basic_info>>

\* lines 184-192
ReadName ==
    /\ info_pc = "name"
    /\ company_name' = name_of(page_title)
    /\ info_pc' = "build"
    /\ UNCHANGED <<outside_info, page_price, page_change, page_change_percent,
                   page_title, current_price, change, change_percent,
                   basic_info>>

\* lines 194-219: the record is built and logged; formatting change_percent
\* with "+.2f" raises TypeError when it is None, and the except clause
\* returns the all-zero record
BuildPriceInfo ==
    /\ info_pc = "build"
    /\ basic_info' =
          IF change_percent = None THEN ZeroInfo
          ELSE [company_name |-> company_name,
                price_info |-> StockPrice(OrZero(current_price),
                                          OrZero(change),
                                          OrZero(change_percent))]
    /\ info_pc' = "done"
    /\ UNCHANGED <<outside_info, page_price, page_change, page_change_percent,
                   page_title, current_price, change, change_percent,
                   company_name>>

InfoNext ==
    \/ ReadPrice
    \/ ReadPriceFails
    \/ ReadChanges
    \/ ReadName
    \/ BuildPriceInfo

InfoSpec == InfoInit /\ [][InfoNext]_all_vars

-----------------------------------------------------------------------------
(* Claims about _extract_basic_info, under InfoSpec *)

\* the text without "+", "%", parentheses, "$" and thousands separators
Undecorated(t) ==
    Strip(SelectSeq(t, LAMBDA c : c \notin {"+", "%", "(", ")", ",", "$"}))

\* the text is a number once undecorated: an optional minus and a numeral
IsSignedNumber(t) ==
    LET u == Undecorated(t)
    IN  /\ u # <<>>
        /\ IsNumeral(IF u[1] = "-" THEN Tail(u) ELSE u)

\* the numeric value of such a text, sign kept
SignedValue(t) ==
    LET u == Undecorated(t)
        v == NumeralValue(IF u[1] = "-" THEN Tail(u) ELSE u)
    IN  IF u[1] = "-" THEN Float(0 - v.m, v.e) ELSE v

\* the element was found and its text holds a number
HasNumber(outcome) == outcome.kind = "text" /\ IsSignedNumber(outcome.text)

T_Price == <<"1", "7", "3", ".", "5", "0">>

T_Change == <<"+", "1", ".", "2", "0">>

T_ChangePercent == <<"+", "0", ".", "7", "0", "%">>

\* C15 (as claimed): when the three elements are read, each field of the price record is
\* the numeric value of its element text, sign kept, with "+", "%",
\* parentheses and thousands separators removed; "173.50", "+1.20" and
\* "+0.70%" give current_price 173.5, change 1.2 and change_percent 0.7.
C15_FieldsAreSignedValues ==
    (info_pc = "done" /\ page_price # Raised /\ page_change # Raised
        /\ page_change_percent # Raised) =>
        /\ HasNumber(page_price) =>
              basic_info.price_info.current_price
                 = SignedValue(page_price.text)
        /\ HasNumber(page_change) =>
              basic_info.price_info.change = SignedValue(page_change.text)
        /\ HasNumber(page_change_percent) =>
              basic_info.price_info.change_percent
                 = SignedValue(page_change_percent.text)
        /\ (/\ page_price = Element(T_Price)
            /\ page_change = Element(T_Change)
            /\ page_change_percent = Element(T_ChangePercent)) =>
              basic_info.price_info
                 = StockPrice(Float(1735, -1), Float(12, -1), Float(7, -1))

-----------------------------------------------------------------------------
(* One run of an entry point: analyze_stocks, quick_analysis and            *)
(* monitor_stocks of main_agent.py, analyze_stock_stream of api.py, with    *)
(* the browsers of the agent and of its analyzer                            *)
(* (browser_agent.py 37-126 and 769-786, reddit_analyzer.py 35-127, 353-366)*)

EntryPoints ==
    {"analyze_stocks", "quick_analysis", "monitor_stocks",
     "analyze_stock_stream"}

\* where initialize can raise: not at all, at async_playwright().start(), at
\* launch, at new_page (new_context for the analyzer), at
\* set_extra_http_headers
InitializeOutcomes == {"none", "start", "launch", "new_page", "headers"}

\* where close can raise: not at all, at page.close(), at browser.close(), at
\* playwright.stop()
CloseOutcomes == {"none", "page", "browser", "playwright"}

\* initialize raises: only when it gets past the _initialized test
initialize_raises(h, fail) == ~h.initialized /\ fail # "none"

\* initialize past its test of _initialized: each assignment that was
\* reached stays, _initialized is set last (browser_agent.py 53-76)
initialize_untested(h, fail) ==
    IF fail = "start" THEN h
    ELSE LET started == [h EXCEPT !.playwright = "started"]
             launch ==
                 [started EXCEPT
                     !.browser = "open",
                     !.launched = @ + 1,
                     !.abandoned = @ + (IF h.browser = "open" THEN 1 ELSE 0)]
             paged == [launch EXCEPT !.page = "open"]
         IN  CASE fail = "launch" -> started
               [] fail = "new_page" -> launch
               [] fail = "headers" -> paged
               [] OTHER -> [paged EXCEPT !.initialized = TRUE]

\* an initialize that launches whatever _initialized says
initialize_relaunching(h, fail) == initialize_untested(h, fail)

\* initialize: nothing happens when _initialized is set
initialize(h, fail) ==
    IF h.initialized THEN h ELSE initialize_untested(h, fail)

\* the calls close makes before it clears _initialized, up to the one that
\* raises: page.close() if page, browser.close() if browser, playwright.stop()
\* if the attribute exists
close_raises(h, fail) ==
    \/ fail = "page" /\ h.page # "none"
    \/ fail = "browser" /\ h.browser # "none"
    \/ fail = "playwright" /\ h.playwright # "absent"

closed_resources(h, fail) ==
    LET page_done == h.page # "none" /\ fail # "page"
        page_raised == h.page # "none" /\ fail = "page"
        browser_done ==
            ~page_raised /\ h.browser # "none" /\ fail # "browser"
        browser_raised ==
            ~page_raised /\ h.browser # "none" /\ fail = "browser"
        playwright_done ==
            /\ ~page_raised /\ ~browser_raised
            /\ h.playwright # "absent" /\ fail # "playwright"
    IN  [h EXCEPT
            !.page = IF page_done \/ browser_done THEN "closed" ELSE @,
            !.browser = IF browser_done THEN "closed" ELSE @,
            !.playwright = IF playwright_done THEN "stopped" ELSE @]

\* RedditSentimentAnalyzer.close: the except clause swallows what was raised
\* and _initialized stays as it was
analyzer_close(h, fail) ==
    IF close_raises(h, fail)
    THEN closed_resources(h, fail)
    ELSE [closed_resources(h, fail) EXCEPT !.initialized = FALSE]

\* BrowserAgent.close: the analyzer is closed and _initialized cleared only
\* when nothing raised before; gives the agent and the analyzer
agent_close(a, an, fail, an_fail) ==
    IF close_raises(a, fail)
    THEN <<closed_resources(a, fail), an>>
    ELSE <<[closed_resources(a, fail) EXCEPT !.initialized = FALSE],
           analyzer_close(an, an_fail)>>

\* the browsers of one object that are open
OpenBrowsers(h) == (IF h.browser = "open" THEN 1 ELSE 0) + h.abandoned

\* progress values, in hundredths
Progress(h) == Normal(h, 0 - 2)

\* an update that is always completed
StatusUpdate_completed(step, status, progress) ==
    [step |-> step, status |-> "completed", progress |-> progress,
     data |-> "None"]

\* _format_status without data
StatusUpdate(step, status, progress) ==
    [step |-> step, status |-> status, progress |-> progress,
     data |-> "None"]

\* _format_status with data: the model keeps which data it is
WithData(update, data) == [update EXCEPT !.data = data]

\* an error update that carries the name of the last step
FailureUpdate_named == StatusUpdate("report_generation", "error", Progress(0))

\* the update of the except clause of analyze_stock_stream (api.py 329-336)
FailureUpdate == StatusUpdate("error", "error", Progress(0))

\* a missing-ticker update that is no error
NoTickerUpdate_processing ==
    StatusUpdate("ticker_extraction", "processing", Progress(0))

\* the update yielded when no ticker was found
NoTickerUpdate == StatusUpdate("ticker_extraction", "error", Progress(0))

Streaming == entry_point = "analyze_stock_stream"

\* only analyze_stock_stream yields updates
Yielded(us) == IF Streaming THEN updates \o us ELSE updates

\* what the except clause of the entry point gives the caller
Handled ==
    CASE entry_point = "analyze_stock_stream" -> "error_update"
      [] entry_point = "analyze_stocks" -> "raised"
      [] OTHER -> "error_dict"

\* what the entry point gives when nothing was raised
Completed ==
    CASE entry_point \in {"analyze_stock_stream", "analyze_stocks"} -> "report"
      [] entry_point = "quick_analysis" -> "summary"
      [] OTHER -> "monitoring"

\* the stream calls _extract_news and _extract_reddit_sentiment itself
DoesNews == Streaming \/ include_news

DoesReddit == Streaming \/ include_reddit

Navigation(page_name, session) ==
    [page |-> page_name, session |-> session,
     open |-> OpenBrowsers(agent) + OpenBrowsers(analyzer)]

NoData == [news |-> "unset", reddit_sentiment |-> "unset"]

RunEntry ==
    /\ entry_point \in EntryPoints
    /\ tickers \in
           IF entry_point \in {"analyze_stocks", "monitor_stocks"}
           THEN 1..MaxTickers ELSE {1}
    /\ include_news \in
           CASE entry_point = "analyze_stocks" -> BOOLEAN
             [] entry_point = "quick_analysis" -> {TRUE}
             [] OTHER -> {FALSE}
    /\ include_reddit \in
           CASE entry_point = "analyze_stocks" -> BOOLEAN
             [] entry_point = "analyze_stock_stream" -> {FALSE}
             [] OTHER -> {TRUE}
    /\ run_pc = IF entry_point = "analyze_stock_stream"
                THEN "ticker" ELSE "initialize"
    /\ ticker_idx = 1
    /\ agent = Constructed
    /\ analyzer = Constructed
    /\ updates = <<>>
    /\ navigated = <<>>
    /\ nav_failed = {}
    /\ logged = {}
    /\ stock_data = NoData
    /\ stocks_data = <<>>
    /\ run_result = "none"
    /\ close_calls = 0

RunInit == RunEntry /\ OthersIdle("run")

\* api.py 156-182: extract_ticker gives a ticker or None and never raises
ExtractTicker ==
    /\ run_pc = "ticker"
    /\ \E found \in BOOLEAN :
        IF found
        THEN /\ updates' = Yielded(
                    <<StatusUpdate("ticker_extraction", "processing",
                                   Progress(10)),
                      WithData(StatusUpdate("ticker_extraction",
                                            "completed", Progress(20)),
                               "ticker")>>)
             /\ run_pc' = "initialize"
             /\ run_result' = run_result
        ELSE /\ updates' = Yielded(
                    <<StatusUpdate("ticker_extraction", "processing",
                                   Progress(10)),
                      NoTickerUpdate>>)
             /\ run_pc' = "finally"
             /\ run_result' = "no_ticker"
    /\ UNCHANGED <<entry_point, tickers, include_news, include_reddit,
                   ticker_idx, agent, analyzer, navigated, nav_failed, logged,
                   stock_data, stocks_data, close_calls, outside_run>>

\* await self.browser_agent.initialize() of the four entry points
InitializeAgent ==
    /\ run_pc = "initialize"
    /\ \E fail \in InitializeOutcomes :
        /\ agent' = initialize(agent, fail)
        /\ IF initialize_raises(agent, fail)
           THEN /\ updates' = Yielded(
                       <<StatusUpdate("browser_initialization", "processing",
                                      Progress(25)),
                         FailureUpdate>>)
                /\ run_pc' = "finally"
                /\ run_result' = Handled
           ELSE /\ updates' = Yielded(
                       <<StatusUpdate("browser_initialization", "processing",
                                      Progress(25)),
                         StatusUpdate("browser_initialization", "completed",
                                      Progress(30))>>)
                /\ run_pc' = "quote"
                /\ run_result' = run_result
    /\ UNCHANGED <<entry_point, tickers, include_news, include_reddit,
                   ticker_idx, analyzer, navigated, nav_failed, logged,
                   stock_data, stocks_data, close_calls, outside_run>>

\* extract_stock_data up to _extract_fundamentals: a goto that raises is
\* logged and raised again (browser_agent.py 124-126); monitor_stocks goes on
\* with the next ticker, the other entry points reach their except clause
QuotePage ==
    /\ run_pc = "quote"
    /\ \E fail \in InitializeOutcomes, loads \in BOOLEAN :
        LET init_raised == initialize_raises(agent, fail)
            raised == init_raised \/ ~loads
            skipped == raised /\ entry_point = "monitor_stocks"
        IN  /\ agent' = initialize(agent, fail)
            /\ nav_failed' =
                   IF ~init_raised /\ ~loads
                   THEN nav_failed \cup {"quote"} ELSE nav_failed
            /\ logged' =
                   IF ~init_raised /\ ~loads
                   THEN logged \cup {"quote"} ELSE logged
            /\ navigated' =
                   IF raised THEN navigated
                   ELSE Append(navigated, Navigation("quote", "agent"))
            /\ stock_data' = NoData
            /\ updates' = Yielded(
                   <<StatusUpdate("fundamentals_extraction", "processing",
                                  Progress(35)),
                     IF raised THEN FailureUpdate
                     ELSE WithData(StatusUpdate("fundamentals_extraction",
                                                "completed", Progress(50)),
                                   "price")>>)
            /\ run_pc' =
                   CASE skipped /\ ticker_idx < tickers -> "quote"
                     [] skipped /\ ticker_idx >= tickers -> "report"
                     [] raised /\ ~skipped -> "finally"
                     [] ~raised /\ DoesNews -> "news"
                     [] ~raised /\ ~DoesNews /\ DoesReddit -> "sentiment"
                     [] OTHER -> "collect"
            /\ ticker_idx' = IF skipped THEN ticker_idx + 1 ELSE ticker_idx
            /\ run_result' = IF raised /\ ~skipped THEN Handled ELSE run_result
    /\ UNCHANGED <<entry_point, tickers, include_news, include_reddit,
                   analyzer, stocks_data, close_calls, outside_run>>

\* _extract_news on the agent's page: a goto that raises is logged and the
\* list is empty (browser_agent.py 541-549, 683-685)
NewsPage ==
    /\ run_pc = "news"
    /\ \E loads \in BOOLEAN, found \in BOOLEAN :
        /\ nav_failed' = IF loads THEN nav_failed ELSE nav_failed \cup {"news"}
        /\ logged' = IF loads THEN logged ELSE logged \cup {"news"}
        /\ navigated' =
               IF loads THEN Append(navigated, Navigation("news", "agent"))
               ELSE navigated
        /\ stock_data' =
               [stock_data EXCEPT
                   !.news = IF loads /\ found THEN "items" ELSE "empty"]
    /\ updates' = Yielded(
           <<StatusUpdate("news_extraction", "processing", Progress(55)),
             WithData(StatusUpdate("news_extraction", "completed",
                                   Progress(70)),
                      "news_count")>>)
    /\ run_pc' = IF DoesReddit THEN "sentiment" ELSE "collect"
    /\ UNCHANGED <<entry_point, tickers, include_news, include_reddit,
                   ticker_idx, agent, analyzer, stocks_data, run_result,
                   close_calls, outside_run>>

\* _extract_reddit_sentiment: analyze_sentiment initializes the analyzer's own
\* browser when it is not initialized; whatever is raised is logged and the
\* sentiment is None (browser_agent.py 688-695, reddit_analyzer.py 89-127,
\* 129-180)
SentimentPage ==
    /\ run_pc = "sentiment"
    /\ \E fail \in InitializeOutcomes, loads \in BOOLEAN, read \in BOOLEAN :
        LET init_raised == initialize_raises(analyzer, fail)
            an == initialize(analyzer, fail)
        IN  /\ analyzer' = an
            /\ nav_failed' =
                   IF ~init_raised /\ ~loads
                   THEN nav_failed \cup {"sentiment"} ELSE nav_failed
            /\ logged' =
                   IF ~init_raised /\ ~loads
                   THEN logged \cup {"sentiment"} ELSE logged
            /\ navigated' =
                   IF init_raised \/ ~loads THEN navigated
                   ELSE Append(navigated,
                               [page |-> "sentiment", session |-> "analyzer",
                                open |-> OpenBrowsers(agent)
                                         + OpenBrowsers(an)])
            /\ stock_data' =
                   [stock_data EXCEPT
                       !.reddit_sentiment =
                           IF ~init_raised /\ loads /\ read
                           THEN "record" ELSE "none"]
    /\ updates' = Yielded(
           <<StatusUpdate("reddit_sentiment", "processing", Progress(75)),
             WithData(StatusUpdate("reddit_sentiment", "completed",
                                   Progress(80)),
                      "sentiment")>>)
    /\ run_pc' = "collect"
    /\ UNCHANGED <<entry_point, tickers, include_news, include_reddit,
                   ticker_idx, agent, stocks_data, run_result, close_calls,
                   outside_run>>

\* the StockData of one ticker is kept and the loop over the tickers goes on
Collect ==
    /\ run_pc = "collect"
    /\ stocks_data' = Append(stocks_data, stock_data)
    /\ ticker_idx' = ticker_idx + 1
    /\ run_pc' = IF ticker_idx < tickers THEN "quote" ELSE "report"
    /\ UNCHANGED <<entry_point, tickers, include_news, include_reddit, agent,
                   analyzer, updates, navigated, nav_failed, logged,
                   stock_data, run_result, close_calls, outside_run>>

\* generate_insights catches what it raises (llm_service.py 41-77); the
\* report, the summary or the monitoring data is built and returned
Report ==
    /\ run_pc = "report"
    /\ updates' = Yielded(
           <<StatusUpdate("llm_analysis", "processing", Progress(85)),
             StatusUpdate("llm_analysis", "completed", Progress(95)),
             StatusUpdate("report_generation", "processing", Progress(95)),
             WithData(StatusUpdate("report_generation", "completed",
                                   Progress(100)),
                      "report")>>)
    /\ run_result' = Completed
    /\ run_pc' = "finally"
    /\ UNCHANGED <<entry_point, tickers, include_news, include_reddit,
                   ticker_idx, agent, analyzer, navigated, nav_failed, logged,
                   stock_data, stocks_data, close_calls, outside_run>>

\* the finally clause: await self.browser_agent.close()
Close ==
    /\ run_pc = "finally"
    /\ \E fail \in CloseOutcomes, an_fail \in CloseOutcomes :
        /\ agent' = agent_close(agent, analyzer, fail, an_fail)[1]
        /\ analyzer' = agent_close(agent, analyzer, fail, an_fail)[2]
    /\ close_calls' = close_calls + 1
    /\ run_pc' = "ended"
    /\ UNCHANGED <<entry_point, tickers, include_news, include_reddit,
                   ticker_idx, updates, navigated, nav_failed, logged,
                   stock_data, stocks_data, run_result, outside_run>>

RunNext ==
    \/ ExtractTicker
    \/ InitializeAgent
    \/ QuotePage
    \/ NewsPage
    \/ SentimentPage
    \/ Collect
    \/ Report
    \/ Close

RunSpec == RunInit /\ [][RunNext]_all_vars

-----------------------------------------------------------------------------
(* The status updates of analyze_stock_stream *)

StepNames ==
    {"ticker_extraction", "browser_initialization", "fundamentals_extraction",
     "news_extraction", "reddit_sentiment", "llm_analysis",
     "report_generation"}

StatusNames == {"processing", "completed", "error"}

UpdatesYielded == {updates[k] : k \in 1..Len(updates)}

\* C16 (as claimed): every status update of analyze_stock_stream, on success
\* and on every failure path, has its step among the seven step names, its
\* status in {processing, completed, error} and its progress within [0,1].
C16_StepStatusProgressInRange ==
    \A u \in UpdatesYielded :
        /\ u.step \in StepNames
        /\ u.status \in StatusNames
        /\ InUnitInterval(u.progress)

\* C16 (amended): the step of every update is one of the seven step names or
\* "error", its status is in {processing, completed, error} and its progress
\* is within [0,1]; an update with status error is either the missing-ticker
\* update (ticker_extraction, error, 0.0) or the update (error, error, 0.0),
\* and a run that reached the except clause has yielded the latter last.
C16_StepsIncludeError ==
    /\ \A u \in UpdatesYielded :
        /\ u.step \in StepNames \cup {"error"}
        /\ u.status \in StatusNames
        /\ InUnitInterval(u.progress)
        /\ u.status = "error" =>
               u \in {StatusUpdate("ticker_extraction", "error", Float(0, 0)),
                      StatusUpdate("error", "error", Float(0, 0))}
    /\ run_result = "error_update" =>
           /\ updates # <<>>
           /\ updates[Len(updates)] =
                  StatusUpdate("error", "error", Float(0, 0))

\* a stream whose quote page did not load has ended with the error update
C16_Witness ==
    /\ Streaming
    /\ run_pc = "ended"
    /\ run_result = "error_update"
    /\ "quote" \in nav_failed
    /\ Len(updates) = 6
    /\ updates[5] =
           StatusUpdate("fundamentals_extraction", "processing", Float(35, -2))
    /\ updates[6].step = "error"

-----------------------------------------------------------------------------
(* Release of the browsers at the end of a run *)

\* the browsers launched by the agent or by its analyzer that are open
BrowsersOpen == OpenBrowsers(agent) + OpenBrowsers(analyzer)

\* C17 (as claimed): every run of analyze_stocks, quick_analysis,
\* monitor_stocks and analyze_stock_stream ends by calling the agent's close,
\* whether it succeeded or raised, and once close has returned the agent is
\* marked not initialized and no browser it launched is still open.
C17_ClosedAfterEveryRun ==
    run_pc = "ended" =>
        /\ close_calls = 1
        /\ ~agent.initialized
        /\ BrowsersOpen = 0

-----------------------------------------------------------------------------
(* Browser sessions of one analysis *)

PagesNavigated == {navigated[k] : k \in 1..Len(navigated)}

\* C18 (as claimed): during one analysis at most one browser is open at any
\* time; the quote-page, news and sentiment steps all use the same single
\* browser session and no second browser is launched while the first is open.
C18_SingleBrowserSession ==
    /\ BrowsersOpen <= 1
    /\ \A n \in PagesNavigated : n.session = "agent"

\* C18 (amended): the agent launches at most one browser in one analysis and
\* the quote and news pages are loaded in it; the sentiment page is loaded in
\* a browser that the analyzer launched for itself, while the agent's browser
\* is open too, so that two browsers or more are open then; the browsers open
\* at any time are at most the agent's one and those the analyzer launched.
C18_AgentSessionAndAnalyzerSession ==
    /\ agent.launched <= 1
    /\ OpenBrowsers(agent) <= 1
    /\ BrowsersOpen <= 1 + analyzer.launched
    /\ \A n \in PagesNavigated :
        /\ n.page \in {"quote", "news"} => n.session = "agent" /\ n.open >= 1
        /\ n.page = "sentiment" => n.session = "analyzer" /\ n.open >= 2

\* an analysis loaded its quote and news pages in the agent's browser and its
\* sentiment page in the analyzer's, two browsers being open
C18_Witness ==
    /\ run_pc = "ended"
    /\ run_result = "report"
    /\ navigated =
           <<[page |-> "quote", session |-> "agent", open |-> 1],
             [page |-> "news", session |-> "agent", open |-> 1],
             [page |-> "sentiment", session |-> "analyzer", open |-> 2]>>
    /\ agent.launched = 1
    /\ analyzer.launched = 1

-----------------------------------------------------------------------------
(* Navigation failures *)

\* the entry points that end in a report
Reporting == entry_point \in {"analyze_stocks", "analyze_stock_stream"}

\* C20 (as claimed): when the navigation to the quote page, the news page or
\* the sentiment page fails during an analysis, the failure is logged, the
\* analysis goes on and a report is still generated.
C20_NavigationFailureStillReports ==
    run_pc = "ended" /\ Reporting /\ nav_failed # {} =>
        /\ nav_failed \subseteq logged
        /\ run_result = "report"

-----------------------------------------------------------------------------
(* Two HTTP requests in flight on the one StockAnalysisService of api.py    *)
(* (lines 377-378, 398-429, 432-479): the handlers are coroutines of one    *)
(* event loop and give way to each other at their awaits                    *)

Requests == {1, 2}

Other(r) == 3 - r

Endpoints == {"analyze", "analyze_simple"}

\* a request is between its browser initialization and its close
InSession(r) ==
    req_pc[r] \in {"quote", "read", "news", "sentiment", "report"}

\* request r uses the agent's page
Use(r, action) ==
    IF InSession(Other(r))
    THEN interference \cup {[by |-> r, action |-> action]}
    ELSE interference

ServerEntry ==
    /\ req_kind \in [Requests -> Endpoints]
    /\ req_pc =
           [r \in Requests |->
               IF req_kind[r] = "analyze" THEN "ticker" ELSE "initialize"]
    /\ req_read = [r \in Requests |-> 0]
    /\ srv_agent = Constructed
    /\ srv_analyzer = Constructed
    /\ page_ticker = 0
    /\ interference = {}

ServerInit == ServerEntry /\ OthersIdle("server")

\* /analyze: extract_ticker gives a ticker or None (api.py 162-173)
ReqExtractTicker ==
    \E r \in Requests, found \in BOOLEAN :
        /\ req_pc[r] = "ticker"
        /\ req_pc' = [req_pc EXCEPT
                         ![r] = IF found THEN "initialize" ELSE "finally"]
        /\ UNCHANGED <<req_kind, req_read, srv_agent, srv_analyzer,
                       page_ticker, interference, outside_server>>

\* initialize up to its first await: the test of _initialized
ReqBeginInitialize ==
    \E r \in Requests :
        /\ req_pc[r] = "initialize"
        /\ req_pc' = [req_pc EXCEPT
                         ![r] = IF srv_agent.initialized
                                THEN "quote" ELSE "launching"]
        /\ UNCHANGED <<req_kind, req_read, srv_agent, srv_analyzer,
                       page_ticker, interference, outside_server>>

\* initialize past its awaits: the attributes are assigned whatever another
\* request assigned meanwhile
ReqFinishInitialize ==
    \E r \in Requests, fail \in InitializeOutcomes :
        /\ req_pc[r] = "launching"
        /\ srv_agent' = initialize_untested(srv_agent, fail)
        /\ page_ticker' =
               IF fail \in {"none", "headers"} THEN 0 ELSE page_ticker
        /\ req_pc' = [req_pc EXCEPT
                         ![r] = IF fail = "none" THEN "quote" ELSE "finally"]
        /\ UNCHANGED <<req_kind, req_read, srv_analyzer, interference,
                       outside_server>>

\* extract_stock_data up to its goto (browser_agent.py 85-93): initialize
\* again when another request has closed the agent; goto raises on a page
\* that is closed
ReqQuote ==
    \E r \in Requests, loads \in BOOLEAN :
        /\ req_pc[r] = "quote"
        /\ IF ~srv_agent.initialized
           THEN /\ req_pc' = [req_pc EXCEPT ![r] = "launching"]
                /\ UNCHANGED <<page_ticker, interference>>
           ELSE /\ interference' = Use(r, "navigate")
                /\ IF loads /\ srv_agent.page = "open"
                   THEN /\ page_ticker' = r
                        /\ req_pc' = [req_pc EXCEPT ![r] = "read"]
                   ELSE /\ page_ticker' = page_ticker
                        /\ req_pc' = [req_pc EXCEPT ![r] = "finally"]
        /\ UNCHANGED <<req_kind, req_read, srv_agent, srv_analyzer,
                       outside_server>>

\* _extract_basic_info and _extract_fundamentals read whatever the page shows
\* and keep nothing when the page is closed
ReqRead ==
    \E r \in Requests :
        /\ req_pc[r] = "read"
        /\ interference' = Use(r, "read")
        /\ req_read' = [req_read EXCEPT
                           ![r] = IF srv_agent.page = "open"
                                  THEN page_ticker ELSE 0]
        /\ req_pc' = [req_pc EXCEPT ![r] = "news"]
        /\ UNCHANGED <<req_kind, srv_agent, srv_analyzer, page_ticker,
                       outside_server>>

\* _extract_news: goto of the news page in the agent's page
ReqNews ==
    \E r \in Requests, loads \in BOOLEAN :
        /\ req_pc[r] = "news"
        /\ interference' = Use(r, "navigate")
        /\ page_ticker' =
               IF loads /\ srv_agent.page = "open" THEN r ELSE page_ticker
        /\ req_pc' = [req_pc EXCEPT ![r] = "sentiment"]
        /\ UNCHANGED <<req_kind, req_read, srv_agent, srv_analyzer,
                       outside_server>>

\* _extract_reddit_sentiment: the analyzer's own browser
ReqSentiment ==
    \E r \in Requests, fail \in InitializeOutcomes :
        /\ req_pc[r] = "sentiment"
        /\ srv_analyzer' = initialize(srv_analyzer, fail)
        /\ req_pc' = [req_pc EXCEPT ![r] = "report"]
        /\ UNCHANGED <<req_kind, req_read, srv_agent, page_ticker,
                       interference, outside_server>>

\* generate_insights and the report
ReqReport ==
    \E r \in Requests :
        /\ req_pc[r] = "report"
        /\ req_pc' = [req_pc EXCEPT ![r] = "finally"]
        /\ UNCHANGED <<req_kind, req_read, srv_agent, srv_analyzer,
                       page_ticker, interference, outside_server>>

\* the finally clause of the handler: close of the shared agent
ReqClose ==
    \E r \in Requests, fail \in CloseOutcomes, an_fail \in CloseOutcomes :
        /\ req_pc[r] = "finally"
        /\ srv_agent' = agent_close(srv_agent, srv_analyzer, fail, an_fail)[1]
        /\ srv_analyzer' =
               agent_close(srv_agent, srv_analyzer, fail, an_fail)[2]
        /\ interference' = Use(r, "close")
        /\ req_pc' = [req_pc EXCEPT ![r] = "done"]
        /\ UNCHANGED <<req_kind, req_read, page_ticker, outside_server>>

ServerNext ==
    \/ ReqExtractTicker
    \/ ReqBeginInitialize
    \/ ReqFinishInitialize
    \/ ReqQuote
    \/ ReqRead
    \/ ReqNews
    \/ ReqSentiment
    \/ ReqReport
    \/ ReqClose

ServerSpec == ServerInit /\ [][ServerNext]_all_vars

\* C19 (as claimed): one agent is never used by two scrapes at the same time:
\* while one analysis is between its browser initialization and its close, no
\* other analysis navigates, reads or closes the same agent's page, also when
\* two /analyze or /analyze-simple requests are in flight together.
C19_NoConcurrentUseOfAgent ==
    /\ interference = {}
    /\ \A r \in Requests : req_read[r] \in {0, r}

-----------------------------------------------------------------------------
(* The StockData records after extract_stock_data has returned them:        *)
(* analyze_stocks (main_agent.py 53-98) and analyze_stock_stream            *)
(* (api.py 208-275)                                                         *)

Flows == {"analyze_stocks", "analyze_stock_stream"}

\* StockData(...) as extract_stock_data builds it (browser_agent.py 114-122),
\* the other fields at their defaults (models.py 112-129)
StockData(ticker, company, price, metrics, news, reddit) ==
    [ticker |-> ticker, company_name |-> company, price_info |-> price,
     fundamentals |-> metrics, news |-> news, reddit_sentiment |-> reddit,
     technical_indicators |-> "{}", valuation_metrics |-> "{}",
     insights |-> <<>>, news_sentiment |-> "None", chart_path |-> "None",
     llm_prompts_used |-> {}]

\* the fields extract_stock_data fills from the page
ScrapedFields ==
    {"ticker", "company_name", "price_info", "fundamentals", "chart_path"}

\* setattr with the field given by the statement
assign_price_info(d, field, v) == [d EXCEPT !["price_info"] = v]

\* stock_data.<field> = v
assign(d, field, v) == [d EXCEPT ![field] = v]

DataEntry ==
    /\ flow \in Flows
    /\ flow_pc = "extract"
    /\ flow_tickers \in
           IF flow = "analyze_stocks" THEN 1..MaxTickers ELSE {1}
    /\ flow_idx = 1
    /\ sd = [k \in {} |-> 0]
    /\ sd_constructed = <<>>
    /\ sd_kept = <<>>
    /\ sd_written = {}

DataInit == DataEntry /\ OthersIdle("data")

\* stock_data = await self.browser_agent.extract_stock_data(...): the stream
\* asks for no news and no Reddit sentiment
ExtractRecord ==
    /\ flow_pc = "extract"
    /\ \E news \in {<<>>, <<"item">>}, reddit \in {"None", "record"} :
        /\ flow = "analyze_stock_stream" => news = <<>> /\ reddit = "None"
        /\ sd' = StockData(flow_idx, "company", "price", "metrics", news,
                           reddit)
    /\ sd_constructed' = Append(sd_constructed, sd')
    /\ flow_pc' = IF flow = "analyze_stocks" THEN "store" ELSE "news"
    /\ UNCHANGED <<flow, flow_tickers, flow_idx, sd_kept, sd_written,
                   outside_data>>

\* main_agent.py 61-77: technical_indicators, valuation_metrics and
\* llm_prompts_used are assigned
StoreAnalysis ==
    /\ flow_pc = "store"
    /\ \E indicators \in {"{}", "indicators"} :
        sd' = assign(assign(assign(sd, "technical_indicators", indicators),
                            "valuation_metrics", "valuation"),
                     "llm_prompts_used", {})
    /\ sd_written' =
           sd_written \cup
               {"technical_indicators", "valuation_metrics",
                "llm_prompts_used"}
    /\ flow_pc' = "news_sentiment"
    /\ UNCHANGED <<flow, flow_tickers, flow_idx, sd_constructed, sd_kept,
                   outside_data>>

\* main_agent.py 80-88: news_sentiment is assigned when there is news; the
\* record is appended to stocks_data
KeepRecord ==
    /\ flow_pc = "news_sentiment"
    /\ \E sentiment \in {"positive", "negative"} :
        LET kept == IF sd.news # <<>>
                    THEN assign(sd, "news_sentiment", sentiment) ELSE sd
        IN  /\ sd' = kept
            /\ sd_kept' = Append(sd_kept, kept)
    /\ sd_written' =
           IF sd.news # <<>> THEN sd_written \cup {"news_sentiment"}
           ELSE sd_written
    /\ flow_idx' = IF flow_idx < flow_tickers THEN flow_idx + 1 ELSE 1
    /\ flow_pc' = IF flow_idx < flow_tickers THEN "extract" ELSE "insights"
    /\ UNCHANGED <<flow, flow_tickers, sd_constructed, outside_data>>

\* main_agent.py 91-98: generate_insights stores its prompt in the record's
\* llm_prompts_used and insights is assigned
StoreInsights ==
    /\ flow_pc = "insights"
    /\ flow = "analyze_stocks"
    /\ \E insights \in {<<>>, <<"report">>} :
        sd_kept' =
            [sd_kept EXCEPT
                ![flow_idx] =
                    assign(assign(@, "llm_prompts_used",
                                  @.llm_prompts_used \cup {"insights"}),
                           "insights", insights)]
    /\ sd_written' = sd_written \cup {"llm_prompts_used", "insights"}
    /\ flow_idx' = flow_idx + 1
    /\ flow_pc' = IF flow_idx < flow_tickers THEN "insights" ELSE "done"
    /\ UNCHANGED <<flow, flow_tickers, sd, sd_constructed, outside_data>>

\* api.py 233-235: stock_data.news = news_items
StoreNews ==
    /\ flow_pc = "news"
    /\ \E news \in {<<>>, <<"item">>, <<"item", "item">>} :
        /\ sd' = assign(sd, "news", news)
        /\ sd_kept' = <<sd'>>
    /\ sd_written' = sd_written \cup {"news"}
    /\ flow_pc' = "reddit"
    /\ UNCHANGED <<flow, flow_tickers, flow_idx, sd_constructed,
                   outside_data>>

\* api.py 252-254: stock_data.reddit_sentiment = reddit_sentiment
StoreReddit ==
    /\ flow_pc = "reddit"
    /\ \E reddit \in {"None", "record"} :
        /\ sd' = assign(sd, "reddit_sentiment", reddit)
        /\ sd_kept' = <<sd'>>
    /\ sd_written' = sd_written \cup {"reddit_sentiment"}
    /\ flow_pc' = "stream_insights"
    /\ UNCHANGED <<flow, flow_tickers, flow_idx, sd_constructed,
                   outside_data>>

\* api.py 275-327: generate_insights is called without store_prompts_in and
\* the report is built from the record
BuildReport ==
    /\ flow_pc = "stream_insights"
    /\ flow_pc' = "done"
    /\ UNCHANGED <<flow, flow_tickers, flow_idx, sd, sd_constructed, sd_kept,
                   sd_written, outside_data>>

DataNext ==
    \/ ExtractRecord
    \/ StoreAnalysis
    \/ KeepRecord
    \/ StoreInsights
    \/ StoreNews
    \/ StoreReddit
    \/ BuildReport

DataSpec == DataInit /\ [][DataNext]_all_vars

\* the fields in which the records kept differ from what was constructed
FieldsChanged ==
    {f \in DOMAIN StockData(0, 0, 0, 0, 0, 0) :
        \E k \in 1..Len(sd_kept) : sd_kept[k][f] # sd_constructed[k][f]}

\* C21 (as claimed): a StockData record is read-only after extract_stock_data
\* has constructed it: no later step of the CLI workflow or of the HTTP stream
\* assigns to any of its fields.
C21_ReadOnlyAfterConstruction ==
    /\ sd_written = {}
    /\ FieldsChanged = {}

\* C21 (amended): the fields ticker, company_name, price_info, fundamentals
\* and chart_path are never assigned after construction; analyze_stocks
\* assigns technical_indicators, valuation_metrics, llm_prompts_used,
\* insights and, when there is news, news_sentiment; analyze_stock_stream
\* assigns news and reddit_sentiment.
C21_ScrapedFieldsReadOnly ==
    /\ FieldsChanged \cap ScrapedFields = {}
    /\ FieldsChanged \subseteq sd_written
    /\ flow = "analyze_stocks" =>
           sd_written \subseteq
               {"technical_indicators", "valuation_metrics",
                "llm_prompts_used", "insights", "news_sentiment"}
    /\ flow = "analyze_stock_stream" =>
           sd_written \subseteq {"news", "reddit_sentiment"}

\* the CLI workflow has assigned all five fields of a record with news and
\* left what was scraped as it was
C21_Witness ==
    /\ flow = "analyze_stocks"
    /\ flow_pc = "done"
    /\ sd_written =
           {"technical_indicators", "valuation_metrics", "llm_prompts_used",
            "insights", "news_sentiment"}
    /\ FieldsChanged = sd_written
    /\ sd_kept[1].price_info = "price"

-----------------------------------------------------------------------------
(* calculate_valuation_metrics (data_processor.py 105-164).  Prices, range  *)
(* bounds, EPS, ROE and yields are whole numbers here and quotients are     *)
(* fractions in lowest terms; the market capitalisation is in billions      *)

RECURSIVE Gcd(_, _)
Gcd(a, b) == IF b = 0 THEN a ELSE Gcd(b, a % b)

Abs(n) == IF n < 0 THEN 0 - n ELSE n

\* n / d for d # 0
Quotient(n, d) ==
    LET g == Gcd(Abs(n), Abs(d))
        sign == IF d < 0 THEN 0 - 1 ELSE 1
    IN  [num |-> sign * (n \div g), den |-> sign * (d \div g)]

\* metrics[key] = v
WithKey(d, key, v) ==
    [k \in DOMAIN d \cup {key} |-> IF k = key THEN v ELSE d[k]]

\* truth value of an Optional number
IsSet(v) == v # None /\ v.n # 0

\* lines 114-120: pb_ratio
with_pb_ratio(metrics, in) ==
    IF IsSet(in.roe) /\ IsSet(in.eps)
    THEN WithKey(metrics, "pb_ratio",
             IF (in.eps.n > 0) = (in.roe.n > 0)
             THEN Quotient(in.price * in.roe.n, 100 * in.eps.n)
             ELSE None)
    ELSE metrics

\* lines 122-125: annual_dividend
with_annual_dividend(metrics, in) ==
    IF IsSet(in.dividend_yield)
    THEN WithKey(metrics, "annual_dividend",
                 Quotient(in.price * in.dividend_yield.n, 100))
    ELSE metrics

\* lines 127-136: market_cap_category, thresholds in billions
market_cap_category(market_cap) ==
    IF market_cap > 200 THEN "Large Cap"
    ELSE IF market_cap > 10 THEN "Mid Cap"
    ELSE IF market_cap > 2 THEN "Small Cap"
    ELSE "Micro Cap"

with_market_cap_category(metrics, in) ==
    IF IsSet(in.market_cap)
    THEN WithKey(metrics, "market_cap_category",
                 market_cap_category(in.market_cap.n))
    ELSE metrics

\* lines 143-147: position_in_range
position_in_range(price, range_high, range_low) ==
    IF range_high > range_low
    THEN Quotient(price - range_low, range_high - range_low)
    ELSE Quotient(0, 1)

\* lines 151-156 divide by range_high and by range_low
range_divides_by_zero(in) ==
    /\ in.fifty_two_week_range # None
    /\ \/ in.fifty_two_week_range.high = 0
       \/ in.fifty_two_week_range.low = 0

\* lines 138-156: the three metrics of the 52-week range
with_range_metrics(metrics, in) ==
    IF in.fifty_two_week_range # None
    THEN LET range_high == in.fifty_two_week_range.high
             range_low == in.fifty_two_week_range.low
             position ==
                 position_in_range(in.price, range_high, range_low)
         IN  WithKey(WithKey(WithKey(metrics,
                 "52w_position_percent",
                 Quotient(position.num * 100, position.den)),
                 "distance_from_52w_high",
                 Quotient((range_high - in.price) * 100, range_high)),
                 "distance_from_52w_low",
                 Quotient((in.price - range_low) * 100, range_low))
    ELSE metrics

\* the dict returned: {} when the except clause caught ZeroDivisionError
calculate_valuation_metrics(in) ==
    IF range_divides_by_zero(in)
    THEN [k \in {} |-> None]
    ELSE with_range_metrics(
             with_market_cap_category(
                 with_annual_dividend(
                     with_pb_ratio([k \in {} |-> None], in), in), in), in)

ValuationInputs ==
    [price : 0..MaxQuote,
     eps : {None, PyInt(2)},
     roe : {None, PyInt(0 - 4), PyInt(4)},
     dividend_yield : {None, PyInt(3)},
     market_cap : {None, PyInt(1), PyInt(5), PyInt(50), PyInt(500)},
     fifty_two_week_range :
         {None} \cup [high : 0..MaxQuote, low : 0..MaxQuote]]

ValuationInit ==
    /\ val_input \in ValuationInputs
    /\ val_metrics = None
    /\ val_raised = FALSE
    /\ val_pc = "call"
    /\ OthersIdle("valuation")

CallValuation ==
    /\ val_pc = "call"
    /\ val_metrics' = calculate_valuation_metrics(val_input)
    /\ val_raised' = range_divides_by_zero(val_input)
    /\ val_pc' = "return"
    /\ UNCHANGED <<val_input, outside_valuation>>

ValuationNext ==
    \/ CallValuation

ValuationSpec == ValuationInit /\ [][ValuationNext]_all_vars

-----------------------------------------------------------------------------
(* POST /analyze-simple: analyze_stock_simple (api.py 432-480) *)

SimpleQueries ==
    {<<>>, <<" ">>, <<" ", " ">>, <<"A">>, <<" ", "A">>, <<"$", "A">>}

SimpleInit ==
    /\ simple_pc = "validate"
    /\ simple_query \in SimpleQueries
    /\ simple_failure = "none"
    /\ simple_pending = "none"
    /\ http_status = 0
    /\ simple_agent = Constructed
    /\ simple_analyzer = Constructed
    /\ close_attempted = FALSE
    /\ OthersIdle("simple")

\* lines 438-439: raised in front of the try block
SimpleValidate ==
    /\ simple_pc = "validate"
    /\ IF Strip(simple_query) = <<>>
       THEN /\ http_status' = 400
            /\ simple_failure' = "empty_query"
            /\ simple_pc' = "responded"
       ELSE /\ http_status' = http_status
            /\ simple_failure' = simple_failure
            /\ simple_pc' = "ticker"
    /\ UNCHANGED <<simple_query, simple_pending, simple_agent,
                   simple_analyzer, close_attempted, outside_simple>>

\* lines 443-446: HTTPException(400) is raised inside the try block
SimpleTicker ==
    /\ simple_pc = "ticker"
    /\ \E found \in BOOLEAN :
        IF found
        THEN /\ simple_pc' = "initialize"
             /\ UNCHANGED <<simple_pending, simple_failure>>
        ELSE /\ simple_pc' = "except"
             /\ simple_pending' = "HTTPException(400)"
             /\ simple_failure' = "no_ticker"
    /\ UNCHANGED <<simple_query, http_status, simple_agent, simple_analyzer,
                   close_attempted, outside_simple>>

\* line 449
SimpleInitialize ==
    /\ simple_pc = "initialize"
    /\ \E fail \in InitializeOutcomes :
        /\ simple_agent' = initialize(simple_agent, fail)
        /\ IF initialize_raises(simple_agent, fail)
           THEN /\ simple_pc' = "except"
                /\ simple_pending' = "Exception"
                /\ simple_failure' = "browser"
           ELSE /\ simple_pc' = "extract"
                /\ UNCHANGED <<simple_pending, simple_failure>>
    /\ UNCHANGED <<simple_query, http_status, simple_analyzer,
                   close_attempted, outside_simple>>

\* line 450: extract_stock_data with news and Reddit sentiment; only the
\* quote page raises
SimpleExtract ==
    /\ simple_pc = "extract"
    /\ \E loads \in BOOLEAN, fail \in InitializeOutcomes :
        IF loads
        THEN /\ simple_analyzer' = initialize(simple_analyzer, fail)
             /\ simple_pc' = "respond"
             /\ UNCHANGED <<simple_pending, simple_failure>>
        ELSE /\ simple_analyzer' = simple_analyzer
             /\ simple_pc' = "except"
             /\ simple_pending' = "Exception"
             /\ simple_failure' = "browser"
    /\ UNCHANGED <<simple_query, http_status, simple_agent, close_attempted,
                   outside_simple>>

\* lines 453-470: generate_insights does not raise; the response is returned
SimpleRespond ==
    /\ simple_pc = "respond"
    /\ http_status' = 200
    /\ simple_pc' = "finally"
    /\ UNCHANGED <<simple_query, simple_failure, simple_pending, simple_agent,
                   simple_analyzer, close_attempted, outside_simple>>

\* lines 472-474: except Exception catches the HTTPException of line 446 as
\* well and raises HTTPException(500) in its place
SimpleExcept ==
    /\ simple_pc = "except"
    /\ http_status' = 500
    /\ simple_pending' = "HTTPException(500)"
    /\ simple_pc' = "finally"
    /\ UNCHANGED <<simple_query, simple_failure, simple_agent,
                   simple_analyzer, close_attempted, outside_simple>>

\* lines 476-480
SimpleFinally ==
    /\ simple_pc = "finally"
    /\ \E fail \in CloseOutcomes, an_fail \in CloseOutcomes :
        /\ simple_agent' =
               agent_close(simple_agent, simple_analyzer, fail, an_fail)[1]
        /\ simple_analyzer' =
               agent_close(simple_agent, simple_analyzer, fail, an_fail)[2]
    /\ close_attempted' = TRUE
    /\ simple_pc' = "responded"
    /\ UNCHANGED <<simple_query, simple_failure, simple_pending, http_status,
                   outside_simple>>

SimpleNext ==
    \/ SimpleValidate
    \/ SimpleTicker
    \/ SimpleInitialize
    \/ SimpleExtract
    \/ SimpleRespond
    \/ SimpleExcept
    \/ SimpleFinally

SimpleSpec == SimpleInit /\ [][SimpleNext]_all_vars

\* C23 (as claimed): /analyze-simple responds with 400 when the query is
\* empty and when no ticker can be identified, with 500 only for failures of
\* the browser extraction or the LLM analysis, and in every case close is
\* attempted before the response is returned.
C23_StatusCodesAndClose ==
    simple_pc = "responded" =>
        /\ simple_failure \in {"empty_query", "no_ticker"} => http_status = 400
        /\ http_status = 500 => simple_failure = "browser"
        /\ close_attempted

-----------------------------------------------------------------------------
(* TickerExtractor.extract_ticker (api.py 54-143) *)

IsUpper(c) == \E k \in 1..26 : c = UpperLetters[k]

\* \w
IsWordChar(c) == IsLetter(c) \/ c \in Digits \/ c = "_"

\* the length of the run of [A-Z] that starts at position i
RunLen(s, i) ==
    SetMax({n \in 0..(Len(s) - i + 1) :
               \A j \in i..(i + n - 1) : IsUpper(s[j])})

AtMostFive(n) == IF n > 5 THEN 5 ELSE n

\* the match of one pattern at position i: how many characters it takes and
\* its group, nothing taken when it does not match there
\*   "dollar1"  \$([A-Z]{1,5})      "dollar"  \$([A-Z]{2,5})
\*   "word"     \b([A-Z]{2,5})\b    "whole"   ^([A-Z]{2,5})$
\*   "any"      ([A-Z]{2,5})
MatchAt(s, i, pattern) ==
    LET run == RunLen(s, i)
        after == RunLen(s, i + 1)
        nomatch == [taken |-> 0, group |-> <<>>]
    IN  CASE pattern \in {"dollar1", "dollar"} ->
                 IF s[i] = "$"
                    /\ after >= (IF pattern = "dollar1" THEN 1 ELSE 2)
                 THEN [taken |-> 1 + AtMostFive(after),
                       group |-> SubSeq(s, i + 1, i + AtMostFive(after))]
                 ELSE nomatch
          [] pattern = "word" ->
                 IF /\ run >= 2 /\ run <= 5
                    /\ i = 1 \/ ~IsWordChar(s[i - 1])
                    /\ i + run > Len(s) \/ ~IsWordChar(s[i + run])
                 THEN [taken |-> run, group |-> SubSeq(s, i, i + run - 1)]
                 ELSE nomatch
          [] pattern = "whole" ->
                 IF i = 1 /\ run = Len(s) /\ run >= 2 /\ run <= 5
                 THEN [taken |-> run, group |-> s]
                 ELSE nomatch
          [] OTHER ->
                 IF run >= 2
                 THEN [taken |-> AtMostFive(run),
                       group |-> SubSeq(s, i, i + AtMostFive(run) - 1)]
                 ELSE nomatch

\* re.findall(pattern, s) from position i on
RECURSIVE FindAll(_, _, _)
FindAll(s, i, pattern) ==
    IF i > Len(s) THEN <<>>
    ELSE LET m == MatchAt(s, i, pattern)
         IN  IF m.taken > 0
             THEN <<m.group>> \o FindAll(s, i + m.taken, pattern)
             ELSE FindAll(s, i + 1, pattern)

\* re.search(r'\$([A-Z]{1,5})', query.upper()): the group, <<>> without match
dollar_ticker_match(query) ==
    LET found == FindAll(Upper(query), 1, "dollar1")
    IN  IF found = <<>> THEN <<>> ELSE found[1]

ticker_patterns == <<"dollar", "word", "whole", "any">>

excluded_words ==
    {<<"T", "H", "E">>, <<"A", "N", "D">>, <<"F", "O", "R">>,
     <<"Y", "O", "U">>, <<"A", "R", "E">>, <<"C", "A", "N">>,
     <<"N", "O", "T">>, <<"B", "U", "T">>, <<"F", "R", "O", "M">>,
     <<"T", "H", "I", "S">>, <<"T", "H", "A", "T">>, <<"W", "I", "T", "H">>,
     <<"H", "A", "V", "E">>, <<"W", "I", "L", "L">>, <<"Y", "O", "U", "R">>,
     <<"T", "H", "E", "Y">>, <<"B", "E", "E", "N">>,
     <<"T", "H", "E", "I", "R">>, <<"S", "A", "I", "D">>,
     <<"E", "A", "C", "H">>, <<"W", "H", "I", "C", "H">>,
     <<"T", "H", "E", "R", "E">>, <<"W", "A", "S">>, <<"O", "N", "E">>,
     <<"O", "U", "R">>, <<"O", "U", "T">>, <<"D", "A", "Y">>,
     <<"G", "E", "T">>, <<"U", "S", "E">>, <<"M", "A", "N">>,
     <<"N", "E", "W">>, <<"N", "O", "W">>, <<"W", "A", "Y">>,
     <<"M", "A", "Y">>, <<"S", "A", "Y">>}

\* the matches of one pattern that the filter lets through
Accepted(ticker, pattern) ==
    SelectSeq(FindAll(ticker, 1, pattern),
              LAMBDA w : w \notin excluded_words /\ Len(w) >= 2)

\* the loop over ticker_patterns from pattern k on: the first match let
\* through, <<>> when no pattern gives one
RECURSIVE FromPatterns(_, _)
FromPatterns(ticker, k) ==
    IF k > Len(ticker_patterns) THEN <<>>
    ELSE IF Accepted(ticker, ticker_patterns[k]) # <<>>
         THEN Accepted(ticker, ticker_patterns[k])[1]
         ELSE FromPatterns(ticker, k + 1)

T_UNKNOWN == <<"U", "N", "K", "N", "O", "W", "N">>

\* str.isalpha()
IsAlpha(s) == s # <<>> /\ \A i \in 1..Len(s) : IsLetter(s[i])

\* extract_ticker(query) when ollama.chat gave the text response; None when it
\* raised
extract_ticker(query, llm) ==
    IF llm = None THEN None
    ELSE LET ticker == Upper(Strip(llm.s))
         IN  IF dollar_ticker_match(query) # <<>>
             THEN Str(dollar_ticker_match(query))
             ELSE IF FromPatterns(ticker, 1) # <<>>
             THEN Str(FromPatterns(ticker, 1))
             ELSE IF ticker = T_UNKNOWN THEN None
             ELSE IF Len(ticker) >= 2 /\ Len(ticker) <= 5 /\ IsAlpha(ticker)
             THEN Str(ticker)
             ELSE None

TickerQueries ==
    {<<"w", "e", "a", "t", "h", "e", "r">>,
     <<"$", "a", "a", "p", "l", " ", "o", "k">>, <<"$">>,
     <<"c", "o", "s", "t", " ", "$", "5">>,
     <<"$", "a", "b", "c", "d", "e", "f", "g">>,
     <<"i", "s", " ", "$", "t", " ", "u", "p">>, <<"A", "p", "p", "l", "e">>}

TickerAnswers ==
    {<<"U", "N", "K", "N", "O", "W", "N">>,
     <<"u", "n", "k", "n", "o", "w", "n", " ">>,
     <<"U", "n", "k", "n", "o", "w", "n", ".">>, <<"A", "A", "P", "L">>,
     <<"a", "a", "p", "l">>,
     <<"T", "h", "e", " ", "t", "i", "c", "k", "e", "r", " ", "i", "s", " ", "A", "A", "P", "L">>,
     <<"A">>, <<"T", "H", "E">>, <<"X", "1">>, <<>>, <<"$", "T">>,
     <<"T", "H", "E", " ", "N", "O", "T">>, <<"A", "B", "1", " ", "C", "D">>,
     <<" ", "m", "s", "f", "t", " ">>}

TickerInit ==
    /\ tk_query \in TickerQueries
    /\ tk_response \in {None} \cup {Str(a) : a \in TickerAnswers}
    /\ tk_result = None
    /\ tk_pc = "call"
    /\ OthersIdle("ticker")

CallExtractTicker ==
    /\ tk_pc = "call"
    /\ tk_result' = extract_ticker(tk_query, tk_response)
    /\ tk_pc' = "return"
    /\ UNCHANGED <<tk_query, tk_response, outside_ticker>>

TickerNext ==
    \/ CallExtractTicker

TickerSpec == TickerInit /\ [][TickerNext]_all_vars

\* the query holds a $TICKER token: a dollar sign followed by a letter
HasDollarToken(q) ==
    \E i \in 1..(Len(q) - 1) : q[i] = "$" /\ IsLetter(q[i + 1])

\* C24 (as claimed): extract_ticker returns None whenever the query holds no
\* $TICKER token and the LLM answers "UNKNOWN"; it never returns a fragment of
\* the word UNKNOWN as a ticker.
C24_UnknownGivesNoTicker ==
    /\ tk_pc = "return"
    /\ ~HasDollarToken(tk_query)
    /\ tk_response # None
    /\ Upper(Strip(tk_response.s)) = T_UNKNOWN
    => tk_result = None

-----------------------------------------------------------------------------
(* Order of the status updates of analyze_stock_stream *)

StepOrder ==
    <<"ticker_extraction", "browser_initialization",
      "fundamentals_extraction", "news_extraction", "reddit_sentiment",
      "llm_analysis", "report_generation">>

\* C25: on a run of analyze_stock_stream in which no step fails the updates
\* come in the fixed order of the seven steps, each step yields 'processing'
\* and then 'completed' before the first update of the next step, progress
\* never decreases from one update to the next, and the last update is
\* report_generation 'completed' with progress 1.0 and the report as data.
C25_OrderedUpdatesOnSuccess ==
    Streaming /\ run_result = "report" =>
        /\ Len(updates) = 2 * Len(StepOrder)
        /\ \A k \in 1..Len(StepOrder) :
            /\ updates[2 * k - 1].step = StepOrder[k]
            /\ updates[2 * k - 1].status = "processing"
            /\ updates[2 * k].step = StepOrder[k]
            /\ updates[2 * k].status = "completed"
        /\ \A i \in 1..(Len(updates) - 1) :
            ~FloatLess(updates[i + 1].progress, updates[i].progress)
        /\ updates[Len(updates)].progress = Float(1, 0)
        /\ updates[Len(updates)].data = "report"

\* a stream has ended with its report after fourteen updates
C25_Witness ==
    /\ Streaming
    /\ run_pc = "ended"
    /\ run_result = "report"
    /\ Len(updates) = 14
    /\ updates[1].step = "ticker_extraction"
    /\ updates[14].step = "report_generation"
    /\ nav_failed = {}

ErrorUpdates == {k \in 1..Len(updates) : updates[k].status = "error"}

\* C26: in analyze_stock_stream an update with status 'error' is terminal: at
\* most one is yielded in a run and no update follows it; a run that fails
\* (no ticker, or an exception) yields one; a failure to identify the ticker
\* yields it before any browser initialization is started; close is still
\* called after it.
C26_ErrorUpdateIsTerminal ==
    /\ Cardinality(ErrorUpdates) <= 1
    /\ ErrorUpdates # {} =>
           /\ ErrorUpdates = {Len(updates)}
           /\ run_pc \in {"finally", "ended"}
           /\ run_result \in {"no_ticker", "error_update"}
    /\ Streaming /\ run_result \in {"no_ticker", "error_update"} =>
           ErrorUpdates # {}
    /\ run_result = "no_ticker" =>
           /\ \A k \in 1..Len(updates) :
                  updates[k].step # "browser_initialization"
           /\ run_pc = "finally" => agent = Constructed
           /\ agent.launched = 0
    /\ run_pc = "ended" => close_calls = 1

\* a stream that found no ticker has ended: its second update is the error
\* update, no browser was launched and close was called
C26_Witness ==
    /\ Streaming
    /\ run_pc = "ended"
    /\ run_result = "no_ticker"
    /\ Len(updates) = 2
    /\ updates[2].status = "error"
    /\ agent.launched = 0
    /\ close_calls = 1

-----------------------------------------------------------------------------
(* The price record when the change texts cannot be parsed *)

\* C27 (as claimed): _extract_basic_info never raises, and whenever the price
\* element yields a parseable price the record returned carries that price
\* and the company name read from the page, also when the change or the
\* change-percent text is a placeholder or cannot be parsed (the two fields
\* are 0.0 then); the all-zero record under the ticker as company name is
\* returned only when the price itself could not be obtained.
C27_ParsedPriceIsKept ==
    (info_pc = "done" /\ page_price # Raised /\ current_price # None) =>
        /\ basic_info.price_info.current_price = current_price
        /\ basic_info.company_name = name_of(page_title)
        /\ change = None => basic_info.price_info.change = Float(0, 0)
        /\ change_percent = None =>
               basic_info.price_info.change_percent = Float(0, 0)

-----------------------------------------------------------------------------
(* The items returned by _extract_news, under NewsSpec *)

\* C28 (as claimed): every news item collected by _extract_news, in the first
\* pass or in the retry pass after scrolling, has a non-empty trimmed title
\* and an absolute URL: an href that does not start with "http" is prefixed
\* with the site origin.
C28_TitlesNonEmptyUrlsAbsolute ==
    \A i \in 1..Len(news_items) :
        /\ news_items[i].title # <<>>
        /\ Strip(news_items[i].title) = news_items[i].title
        /\ StartsWith(news_items[i].url, <<"h", "t", "t", "p">>)

-----------------------------------------------------------------------------
(* StockAnalysisAgent.monitor_stocks (main_agent.py 270-329) *)

MonitorTickers == {"A", "B"}

\* the lists of tickers: cli.py 187 upper-cases what the user typed and keeps
\* repetitions
TickerLists ==
    UNION {[1..n -> MonitorTickers] : n \in 1..MaxTickers}

\* alert_thresholds: None, or a dict that holds a threshold for some tickers
ThresholdChoices ==
    {[given |-> FALSE, dict |-> [t \in MonitorTickers |-> None]]} \cup
    {[given |-> TRUE, dict |-> d] :
        d \in [MonitorTickers -> {None, PyInt(3)}]}

\* a dict is falsy when it is empty
NonEmpty(thresholds) ==
    thresholds.given /\ \E t \in MonitorTickers : thresholds.dict[t] # None

\* change percents of a scraped record
ChangePercents == {0 - 6, 0 - 5, 0, 4}

\* what extract_stock_data does: it raises (browser_agent.py 124-126) or it
\* returns a record with its price_info
Extractions ==
    {[raised |-> TRUE, change_percent |-> 0, current_price |-> 0]} \cup
    {[raised |-> FALSE, change_percent |-> c, current_price |-> 1] :
        c \in ChangePercents}

\* line 295: the default of alert_thresholds.get and of a falsy alert_thresholds
DefaultThreshold == 5

\* lines 294-296
threshold(thresholds, ticker) ==
    IF NonEmpty(thresholds)
    THEN IF thresholds.dict[ticker] # None
         THEN thresholds.dict[ticker].n
         ELSE DefaultThreshold
    ELSE DefaultThreshold

\* a comparison that lets the threshold itself through
significant_move_inclusive(percent, limit) ==
    Abs(percent) >= limit

\* lines 293, 298
significant_move(percent, limit) == Abs(percent) > limit

\* lines 299-306
Alert(ticker, stock) ==
    [ticker |-> ticker, change_percent |-> stock.change_percent,
     current_price |-> stock.current_price,
     alert_type |-> "significant_move"]

\* lines 308-312, without the timestamp
Monitored(stock) ==
    [tag |-> "monitored", price |-> stock.current_price,
     change_percent |-> stock.change_percent]

\* the keys of monitoring_data
Keys(data) == {t \in MonitorTickers : data[t] # None}

MonitorInit ==
    /\ mon_pc = "initialize"
    /\ mon_tickers \in TickerLists
    /\ alert_thresholds \in ThresholdChoices
    /\ mon_idx = 1
    /\ mon_agent = Constructed
    /\ mon_extracted = <<>>
    /\ alerts = <<>>
    /\ monitoring_data = [t \in MonitorTickers |-> None]
    /\ mon_result = [kind |-> "none"]
    /\ mon_close_calls = 0
    /\ OthersIdle("monitor")

\* line 283, and the outer except clause of lines 325-327 when it raises
MonitorInitialize ==
    /\ mon_pc = "initialize"
    /\ \E fail \in InitializeOutcomes :
        /\ mon_agent' = initialize(mon_agent, fail)
        /\ IF initialize_raises(mon_agent, fail)
           THEN /\ mon_result' = [kind |-> "error"]
                /\ mon_pc' = "finally"
           ELSE /\ mon_result' = mon_result
                /\ mon_pc' = "loop"
    /\ UNCHANGED <<mon_tickers, alert_thresholds, mon_idx, mon_extracted,
                   alerts, monitoring_data, mon_close_calls, outside_monitor>>

\* lines 285-316: one pass of the for loop
MonitorTicker ==
    /\ mon_pc = "loop"
    /\ mon_idx <= Len(mon_tickers)
    /\ \E stock \in Extractions :
        LET ticker == mon_tickers[mon_idx]
            limit == threshold(alert_thresholds, ticker)
        IN  /\ mon_extracted' =
                   Append(mon_extracted, [ticker |-> ticker, stock |-> stock])
            /\ IF stock.raised
               THEN /\ alerts' = alerts
                    /\ monitoring_data' = monitoring_data
               ELSE /\ alerts' =
                          IF significant_move(stock.change_percent, limit)
                          THEN Append(alerts, Alert(ticker, stock))
                          ELSE alerts
                    /\ monitoring_data' =
                          [monitoring_data EXCEPT ![ticker] = Monitored(stock)]
    /\ mon_idx' = mon_idx + 1
    /\ UNCHANGED <<mon_pc, mon_tickers, alert_thresholds, mon_agent,
                   mon_result, mon_close_calls, outside_monitor>>

\* lines 318-323
MonitorReturn ==
    /\ mon_pc = "loop"
    /\ mon_idx > Len(mon_tickers)
    /\ mon_result' =
           [kind |-> "monitoring", monitoring_data |-> monitoring_data,
            alerts |-> alerts,
            monitored_count |-> Cardinality(Keys(monitoring_data)),
            alert_count |-> Len(alerts)]
    /\ mon_pc' = "finally"
    /\ UNCHANGED <<mon_tickers, alert_thresholds, mon_idx, mon_agent,
                   mon_extracted, alerts, monitoring_data, mon_close_calls,
                   outside_monitor>>

\* lines 328-329
MonitorClose ==
    /\ mon_pc = "finally"
    /\ \E fail \in CloseOutcomes :
        mon_agent' = agent_close(mon_agent, Constructed, fail, "none")[1]
    /\ mon_close_calls' = mon_close_calls + 1
    /\ mon_pc' = "ended"
    /\ UNCHANGED <<mon_tickers, alert_thresholds, mon_idx, mon_extracted,
                   alerts, monitoring_data, mon_result, outside_monitor>>

MonitorNext ==
    \/ MonitorInitialize
    \/ MonitorTicker
    \/ MonitorReturn
    \/ MonitorClose

MonitorSpec == MonitorInit /\ [][MonitorNext]_all_vars

\* the passes of the loop whose extraction returned
Succeeded == {i \in 1..Len(mon_extracted) : ~mon_extracted[i].stock.raised}

\* the threshold of a ticker as the caller gave it
GivenThreshold(ticker) ==
    IF alert_thresholds.given /\ alert_thresholds.dict[ticker] # None
    THEN alert_thresholds.dict[ticker].n
    ELSE 5

\* the passes that call for an alert
Moved ==
    {i \in Succeeded :
        LET c == mon_extracted[i].stock.change_percent
        IN  (IF c < 0 THEN 0 - c ELSE c) >
                GivenThreshold(mon_extracted[i].ticker)}

\* C29: when monitor_stocks has gone through its list, every ticker of the
\* list was processed, in list order, whatever failed before it;
\* monitored_count is the number of tickers extracted successfully,
\* alert_count the number of alerts, every alert names a ticker of
\* monitoring_data, and the alerts are, in order, those of the passes whose
\* absolute change percent is strictly greater than the ticker's threshold
\* (5 when none is given).
C29_FailuresSkipOneTicker ==
    mon_result.kind = "monitoring" =>
        /\ Len(mon_extracted) = Len(mon_tickers)
        /\ \A i \in 1..Len(mon_tickers) :
               mon_extracted[i].ticker = mon_tickers[i]
        /\ mon_result.monitored_count =
               Cardinality({mon_tickers[i] : i \in Succeeded})
        /\ Keys(mon_result.monitoring_data) =
               {mon_tickers[i] : i \in Succeeded}
        /\ mon_result.alert_count = Len(mon_result.alerts)
        /\ \A k \in 1..Len(mon_result.alerts) :
               mon_result.alerts[k].ticker \in
                   Keys(mon_result.monitoring_data)
        /\ Len(mon_result.alerts) = Cardinality(Moved)
        /\ \A k \in 1..Len(mon_result.alerts) :
               \E i \in Moved :
                   /\ Cardinality({j \in Moved : j < i}) = k - 1
                   /\ mon_result.alerts[k].ticker = mon_tickers[i]
                   /\ mon_result.alerts[k].change_percent =
                          mon_extracted[i].stock.change_percent

\* a failure on the first ticker, then a move of exactly the default
\* threshold without an alert
C29_Witness ==
    /\ mon_pc = "ended"
    /\ mon_result.kind = "monitoring"
    /\ Len(mon_tickers) = 2
    /\ mon_extracted[1].stock.raised
    /\ ~mon_extracted[2].stock.raised
    /\ mon_extracted[2].stock.change_percent = 0 - 5
    /\ ~alert_thresholds.given
    /\ mon_result.monitored_count = 1
    /\ mon_result.alert_count = 0

-----------------------------------------------------------------------------
(* The browsers launched by initialize calls that overlap, under ServerSpec *)

\* C30 (as claimed): BrowserAgent.initialize launches at most one browser
\* between two closes: a call on an initialized agent launches nothing, and
\* two calls that both start before either has finished neither launch two
\* browsers nor leave a launched browser without a reference to it, so the
\* agent never has more than one browser open.
C30_OneBrowserPerSession ==
    /\ srv_agent.abandoned = 0
    /\ OpenBrowsers(srv_agent) <= 1

====
